---------------------------- MODULE Spec2Model ----------------------------
(***************************************************************************)
(* Model of src/scripts/migrate_frontmatter.py: the text-surgery migration *)
(* that moves author / repo / tags from the top level of a SKILL.md        *)
(* frontmatter block into its nested metadata: block.                      *)
(*                                                                         *)
(* Text representation.  A text is the sequence of its lines, i.e. the     *)
(* text split at "\n" (so a text ending in "\n" has a last line <<>>).     *)
(* A line is the sequence of its lexical tokens: " " is one space, ":" is  *)
(* one colon, "," "{" "}" are themselves and every other token is a run of *)
(* characters holding no whitespace and no colon.  Concatenating the       *)
(* tokens gives the line's characters, so emptiness, the first character,  *)
(* "contains a colon", split(":", 1), strip() and startswith() are all     *)
(* computed on the tokens exactly as Python computes them on characters.   *)
(***************************************************************************)
EXTENDS Integers, Sequences, FiniteSets, TLC

VARIABLES
    file,       \* the text of SKILL.md (NoFile when there is none)
    skill_dir,  \* migrate_skill's argument, relative to SKILLS_DIR
    calls,      \* the number of runs so far
    log         \* the records of the latest two runs, oldest first

vars == <<file, skill_dir, calls, log>>

\* ------------------------------------------------------------------ bounds
\* Longest frontmatter block (in lines) of an initial document.
MaxLines == 3
\* Number of migrate_skill / main runs in one behaviour.
MaxCalls == 2
\* Longest skill name (in hyphen-separated segments) drawn for the tag
\* derivation.
MaxParts == 4
\* Longest frontmatter block (in lines) of a document ensure_metadata is
\* first run on.
MaxEnsureLines == 2

\* Frontmatter lines of the documents both programs are first run on.
MaxBothLines == 1

\* Longest README.md (in lines) update_readme is first run on.
MaxReadmeLines == 3

\* ------------------------------------------------------------ line algebra
\* A missing SKILL.md: every text has at least one line, so the empty
\* sequence of lines stands for "no file".
NoFile == <<>>
SP == " "
COLON == ":"

\* "\n".join(lines) seen as a text: joining no line gives the empty text,
\* whose only line is the empty line.
Join(lines) == IF lines = <<>> THEN << <<>> >> ELSE lines

\* str.splitlines() of the text whose lines are `text` (no "\r" or other
\* exotic line boundary occurs in the alphabet): a final empty line is the
\* text's trailing "\n" (or the empty text) and yields no element.
SplitLines(text) ==
    IF text[Len(text)] = <<>> THEN SubSeq(text, 1, Len(text) - 1) ELSE text

\* line[0].isspace() for a non-empty line
IsSpaceFirst(line) == line # <<>> /\ line[1] = SP

\* ":" in line
HasColon(line) == \E i \in 1..Len(line) : line[i] = COLON

\* index of the first ":" of a line that has one
FirstColon(line) == CHOOSE i \in 1..Len(line) :
                        line[i] = COLON /\ \A j \in 1..(i - 1) : line[j] # COLON

RECURSIVE LStrip(_)
LStrip(s) == IF s # <<>> /\ s[1] = SP THEN LStrip(Tail(s)) ELSE s

RECURSIVE RStrip(_)
RStrip(s) == IF s # <<>> /\ s[Len(s)] = SP
             THEN RStrip(SubSeq(s, 1, Len(s) - 1)) ELSE s

\* str.strip()
Strip(s) == LStrip(RStrip(s))

\* line.split(":", 1)[0].strip()
KeyOf(line) == Strip(SubSeq(line, 1, FirstColon(line) - 1))

\* Indent by one space only.
Indent_OneSpace(raw) == <<SP>> \o raw

\* n spaces
Spaces(n) == [i \in 1..n |-> SP]

\* f"  {raw}"
Indent(raw) == <<SP, SP>> \o raw

\* line.startswith("metadata:")
StartsWithMetadata(line) ==
    Len(line) >= 2 /\ line[1] = "metadata" /\ line[2] = COLON

\* ---------------------------------------------------------------- inputs
DELIM == <<"---">>

\* The frontmatter lines initial documents are built from.
L_name     == <<"name", COLON, SP, "x">>
L_author   == <<"author", COLON, SP, "a">>
L_repo     == <<"repo", COLON, SP, "r">>
L_more     == <<SP, SP, "more">>
L_meta     == <<"metadata", COLON>>
L_metasp   == <<"metadata", SP, COLON>>
L_nauthor  == <<SP, SP, "author", COLON, SP, "b">>
L_blank    == <<>>
L_scalar   == <<SP, SP, "author">>
L_flow     == <<"metadata", COLON, SP, "{", "author", COLON, SP, "b", ",", SP,
                "repo", COLON, SP, "q", ",", SP, "tags", COLON, SP, "[", "t", "]", "}">>

\* a number and a list as the value under metadata
L_num      == <<"metadata", COLON, SP, "5">>
L_list     == <<"metadata", COLON, SP, "[", "author", "]">>

LineAlphabet == {L_name, L_author, L_repo, L_more, L_meta, L_metasp,
                 L_nauthor, L_blank, L_scalar, L_flow}

RECURSIVE SeqsUpTo(_, _)
SeqsUpTo(S, n) ==
    IF n = 0 THEN {<<>>}
    ELSE LET shorter == SeqsUpTo(S, n - 1)
         IN  shorter \cup {Append(s, x) : s \in {t \in shorter : Len(t) = n - 1}, x \in S}

\* Body texts after the closing delimiter: "# Body\n", and a body that
\* itself holds a "---" line.
BodyTail  == << <<"#", SP, "Body">>, <<>> >>
BodyDelim == << <<"text">>, DELIM, <<>> >>

\* The documents a behaviour starts from.
Documents ==
    LET fms == SeqsUpTo(LineAlphabet, MaxLines)
    IN     {<<DELIM>> \o fm \o <<DELIM>> \o BodyTail : fm \in fms}
      \cup {<<DELIM>> \o fm \o <<DELIM>> \o BodyDelim : fm \in {f \in fms : Len(f) <= 1}}
      \* closing delimiter is the last line and has no "\n" after it
      \cup {<<DELIM>> \o fm \o <<DELIM>> : fm \in {f \in fms : Len(f) <= 1}}
      \* no opening delimiter
      \cup {fm \o <<DELIM>> \o BodyTail : fm \in {f \in fms : Len(f) = 1}}

\* skill_dir relative to SKILLS_DIR, as its path segments; a segment is the
\* sequence of its "-"-separated parts.
SkillDirs == { << <<"alice">>, <<"pdf", "merge">> >>, << <<"solo">> >> }

\* ------------------------------------------------------ _split_frontmatter
\* re.match(r"^---\n(.*?)\n(---\n.*)", content, re.DOTALL): the first line
\* is "---"; the closing "---" is the first later line that is exactly
\* "---", is preceded by at least one frontmatter line and is followed by
\* "\n" (so it is not the last line).  0 when there is no match.
ClosingDelim(content) ==
    LET cands == {j \in 3..(Len(content) - 1) : content[j] = DELIM}
    IN  IF Len(content) >= 2 /\ content[1] = DELIM /\ cands # {}
        THEN CHOOSE j \in cands : \A k \in cands : j <= k
        ELSE 0

\* match.group(1) and match.group(2), each as its lines
SplitFrontmatter(content) ==
    LET j == ClosingDelim(content)
    IN  [matched |-> j # 0,
         fm_text |-> IF j # 0 THEN SubSeq(content, 2, j - 1) ELSE <<>>,
         rest    |-> IF j # 0 THEN SubSeq(content, j, Len(content)) ELSE <<>>]

\* --------------------------------------------------------- _parse_fm_lines
\* ParseLine that does not trim the key.
ParseLine_NoStrip(line) ==
    IF line # <<>> /\ ~IsSpaceFirst(line) /\ HasColon(line)
    THEN [haskey |-> TRUE, key |-> SubSeq(line, 1, FirstColon(line) - 1), raw |-> line]
    ELSE [haskey |-> FALSE, key |-> <<>>, raw |-> line]

ParseLine(line) ==
    IF line # <<>> /\ ~IsSpaceFirst(line) /\ HasColon(line)
    THEN [haskey |-> TRUE, key |-> KeyOf(line), raw |-> line]
    ELSE [haskey |-> FALSE, key |-> <<>>, raw |-> line]

ParseFmLines(fm_text) ==
    LET ls == SplitLines(fm_text)
    IN  [i \in 1..Len(ls) |-> ParseLine(ls[i])]

\* ------------------------------------------------------- Phase 1: extraction
FIELDS_TO_MIGRATE == {<<"author">>, <<"repo">>, <<"tags">>}

\* Phase1Step without the continuation branch: a null-key line after a
\* target key line is kept instead of extracted.
Phase1Step_NoContinuation(st, p) ==
    IF p.haskey /\ p.key \in FIELDS_TO_MIGRATE
    THEN [st EXCEPT
            !.extracted_lines =
                IF p.key \in DOMAIN st.extracted_lines
                THEN [st.extracted_lines EXCEPT ![p.key] = Append(@, p.raw)]
                ELSE (p.key :> <<p.raw>>) @@ st.extracted_lines,
            !.current_extract_key = <<p.key>>,
            !.skip_continuation = TRUE,
            !.changed = TRUE]
    ELSE [st EXCEPT
            !.skip_continuation = FALSE,
            !.current_extract_key = <<>>,
            !.keep_lines = Append(@, p.raw)]

\* Phase1Step that also keeps the line of a target key it extracts.
Phase1Step_KeepsExtracted(st, p) ==
    IF p.haskey /\ p.key \in FIELDS_TO_MIGRATE
    THEN [st EXCEPT
            !.extracted_lines =
                IF p.key \in DOMAIN st.extracted_lines
                THEN [st.extracted_lines EXCEPT ![p.key] = Append(@, p.raw)]
                ELSE (p.key :> <<p.raw>>) @@ st.extracted_lines,
            !.current_extract_key = <<p.key>>,
            !.skip_continuation = TRUE,
            !.keep_lines = Append(@, p.raw),
            !.changed = TRUE]
    ELSE IF st.skip_continuation /\ ~p.haskey
    THEN [st EXCEPT
            !.extracted_lines[st.current_extract_key[1]] = Append(@, p.raw)]
    ELSE [st EXCEPT
            !.skip_continuation = FALSE,
            !.current_extract_key = <<>>,
            !.keep_lines = Append(@, p.raw)]

\* Phase1Step that stays in extraction mode across a non-target key line.
Phase1Step_StickyContinuation(st, p) ==
    IF p.haskey /\ p.key \in FIELDS_TO_MIGRATE
    THEN [st EXCEPT
            !.extracted_lines =
                IF p.key \in DOMAIN st.extracted_lines
                THEN [st.extracted_lines EXCEPT ![p.key] = Append(@, p.raw)]
                ELSE (p.key :> <<p.raw>>) @@ st.extracted_lines,
            !.current_extract_key = <<p.key>>,
            !.skip_continuation = TRUE,
            !.changed = TRUE]
    ELSE IF st.skip_continuation /\ ~p.haskey
    THEN [st EXCEPT
            !.extracted_lines[st.current_extract_key[1]] = Append(@, p.raw)]
    ELSE [st EXCEPT !.keep_lines = Append(@, p.raw)]

\* One iteration of the Phase 1 loop on the parsed line p, from loop state st.
Phase1Step(st, p) ==
    IF p.haskey /\ p.key \in FIELDS_TO_MIGRATE
    THEN [st EXCEPT
            !.extracted_lines =
                IF p.key \in DOMAIN st.extracted_lines
                THEN [st.extracted_lines EXCEPT ![p.key] = Append(@, p.raw)]
                ELSE (p.key :> <<p.raw>>) @@ st.extracted_lines,
            !.current_extract_key = <<p.key>>,
            !.skip_continuation = TRUE,
            !.changed = TRUE]
    ELSE IF st.skip_continuation /\ ~p.haskey
    THEN [st EXCEPT
            !.extracted_lines[st.current_extract_key[1]] = Append(@, p.raw)]
    ELSE [st EXCEPT
            !.skip_continuation = FALSE,
            !.current_extract_key = <<>>,
            !.keep_lines = Append(@, p.raw)]

RECURSIVE Phase1Loop(_, _, _)
Phase1Loop(parsed, i, st) ==
    IF i > Len(parsed) THEN st
    ELSE Phase1Loop(parsed, i + 1, Phase1Step(st, parsed[i]))

\* Phase 1: extract the lines of the fields to migrate.  current_extract_key
\* is <<>> for None and <<key>> otherwise.
Phase1(parsed) ==
    Phase1Loop(parsed, 1,
               [extracted_lines |-> <<>>, keep_lines |-> <<>>,
                skip_continuation |-> FALSE, current_extract_key |-> <<>>,
                changed |-> FALSE])

\* ---------------------------------------------------------- yaml.safe_load
(***************************************************************************)
(* yaml.safe_load(fm_text), for the block-mapping subset of YAML that the  *)
(* line alphabet and the migration's own output span: key lines            *)
(* "k: scalar", "k:", "k: {flow mapping}", "k: [flow sequence]" at any     *)
(* indentation, indented plain-text lines, and blank lines.  A ":" token   *)
(* is YAML's mapping indicator when it ends the line or a space follows.   *)
(* The load gives: whether the text is valid, whether the root is a        *)
(* mapping, and for every top-level entry its key and the shape of its     *)
(* value (null / mapping with its keys / string with its words / list with *)
(* its items).                                                             *)
(***************************************************************************)
RECURSIVE LeadingSpaces(_)
LeadingSpaces(line) ==
    IF line # <<>> /\ line[1] = SP THEN 1 + LeadingSpaces(Tail(line)) ELSE 0

IsIndicator(body, i) ==
    body[i] = COLON /\ (i = Len(body) \/ body[i + 1] = SP)

Punctuation == {SP, COLON, ",", "{", "}", "[", "]", "'"}

IsWord(t) == t \notin Punctuation

\* the words of a scalar, in order
WordSeq(toks) == SelectSeq(toks, IsWord)

\* A value as the load gives it: its kind (null / str / list / map), the
\* keys of a mapping, the words of a string or list as a set, and in items
\* the words of a string (with "\n" for a line break in it), the items of a
\* list, or the entries of a mapping, in order.
NullValue == [kind |-> "null", keys |-> {}, toks |-> {}, items |-> <<>>]

StrValue(text) ==
    [kind |-> "str", keys |-> {},
     toks |-> {text[i] : i \in 1..Len(text)} \ {"\n"}, items |-> text]

\* The plain scalars that load as an int, and the one that is falsy.
Numerals == {"5", "0"}

IntValue(w) == [kind |-> "int", keys |-> {}, toks |-> {w}, items |-> <<w>>]

\* A plain scalar resolved by its text: an int when it is a numeral, else a str.
ScalarValue(text) ==
    IF Len(text) = 1 /\ text[1] \in Numerals THEN IntValue(text[1])
    ELSE StrValue(text)

ListValue(items) ==
    [kind |-> "list", keys |-> {},
     toks |-> {items[i] : i \in 1..Len(items)}, items |-> items]

\* dict[key] = val on a dict kept as its entries in insertion order
DictSet(d, key, val) ==
    IF \E i \in 1..Len(d) : d[i].key = key
    THEN [i \in 1..Len(d) |-> IF d[i].key = key THEN [key |-> key, val |-> val]
                                                 ELSE d[i]]
    ELSE Append(d, [key |-> key, val |-> val])

\* The dict built from the entries of a mapping in text order: a repeated
\* key keeps its first place and takes its last value.
RECURSIVE AsDict(_)
AsDict(ents) ==
    IF ents = <<>> THEN <<>>
    ELSE LET e == ents[Len(ents)]
         IN  DictSet(AsDict(SubSeq(ents, 1, Len(ents) - 1)), e.key, e.val)

MapValue(ents) ==
    [kind |-> "map", keys |-> {ents[i].key : i \in 1..Len(ents)},
     toks |-> {}, items |-> AsDict(ents)]

\* In a flow mapping, where the value that follows the indicator at k ends:
\* the next "," or "}" that is outside any "[ ]" opened after k.
FlowValueEnd(v, k) ==
    CHOOSE m \in (k + 1)..Len(v) :
        /\ v[m] \in {",", "}"}
        /\ Cardinality({i \in (k + 1)..m : v[i] = "["})
             = Cardinality({i \in (k + 1)..m : v[i] = "]"})
        /\ \A m2 \in (k + 1)..(m - 1) :
              ~(/\ v[m2] \in {",", "}"}
                /\ Cardinality({i \in (k + 1)..m2 : v[i] = "["})
                     = Cardinality({i \in (k + 1)..m2 : v[i] = "]"}))

\* The shape of the value written on a key line after its mapping indicator.
RECURSIVE InlineValue(_)
InlineValue(v) ==
    IF v = <<>> \/ v = <<"null">> \/ v = <<"~">> THEN NullValue
    ELSE IF v[1] = "{" THEN
        LET inds == {k \in 2..Len(v) : IsIndicator(v, k)}
            at   == [n \in 1..Cardinality(inds) |->
                        CHOOSE k \in inds : Cardinality({j \in inds : j < k}) = n - 1]
        IN  MapValue([n \in 1..Cardinality(inds) |->
                        [key |-> <<v[at[n] - 1]>>,
                         val |-> InlineValue(LStrip(SubSeq(v, at[n] + 1,
                                                 FlowValueEnd(v, at[n]) - 1)))]])
    ELSE IF v[1] = "[" THEN ListValue(WordSeq(v))
    ELSE ScalarValue(WordSeq(v))

\* "- " opens an entry of a block sequence
IsItem(body) == body # <<>> /\ body[1] = "-" /\ (Len(body) = 1 \/ body[2] = SP)

\* What YAML's scanner makes of one line.
YamlLine(line) ==
    LET ind  == LeadingSpaces(line)
        body == RStrip(SubSeq(line, ind + 1, Len(line)))
        inds == {i \in 1..Len(body) : IsIndicator(body, i)}
    IN  IF body = <<>> THEN
            [ind |-> ind, kind |-> "blank", key |-> <<>>,
             val |-> NullValue, words |-> <<>>]
        ELSE IF IsItem(body) THEN
            [ind |-> ind, kind |-> "item", key |-> <<>>,
             val |-> NullValue, words |-> WordSeq(Tail(body))]
        ELSE IF inds = {} THEN
            [ind |-> ind, kind |-> "text", key |-> <<>>,
             val |-> NullValue, words |-> WordSeq(body)]
        ELSE LET c == CHOOSE i \in inds : \A k \in inds : i <= k
             IN  [ind |-> ind, kind |-> "key",
                  key |-> RStrip(SubSeq(body, 1, c - 1)),
                  val |-> InlineValue(LStrip(SubSeq(body, c + 1, Len(body)))),
                  words |-> <<>>]

RECURSIVE SkipBlank(_, _)
SkipBlank(c, i) ==
    IF i <= Len(c) /\ c[i].kind = "blank" THEN SkipBlank(c, i + 1) ELSE i

YamlFail == [ok |-> FALSE, next |-> 0, val |-> NullValue, ents |-> <<>>]

\* n line breaks inside a scalar
Breaks(n) == [i \in 1..n |-> "\n"]

\* The continuation lines, from line i on, of a plain scalar that is a value
\* of a block mapping indented n: lines indented more than n continue it
\* (a line break folds to a space, k blank lines to k line breaks), and a
\* mapping indicator inside it is an error ("mapping values are not allowed
\* here").
RECURSIVE YamlScalar(_, _, _, _)
YamlScalar(c, i, n, text) ==
    LET j == SkipBlank(c, i)
    IN  IF j > Len(c) \/ c[j].ind <= n
        THEN [ok |-> TRUE, next |-> j, val |-> ScalarValue(text), ents |-> <<>>]
        ELSE IF c[j].kind = "text"
             THEN YamlScalar(c, j + 1, n, text \o Breaks(j - i) \o c[j].words)
        ELSE YamlFail

\* The block sequence indented m whose next entry is on line i, after the
\* items so far: "- word" lines at the same indentation.
RECURSIVE YamlSeq(_, _, _, _)
YamlSeq(c, i, m, items) ==
    LET j == SkipBlank(c, i)
    IN  IF j > Len(c) \/ c[j].ind < m \/ (c[j].ind = m /\ c[j].kind # "item")
        THEN [ok |-> TRUE, next |-> j, val |-> ListValue(items), ents |-> <<>>]
        ELSE IF c[j].ind = m THEN YamlSeq(c, j + 1, m, items \o c[j].words)
        ELSE YamlFail

\* The block mapping indented n whose next key is on line i, after the
\* entries ents.  e is the value of the key on line i.
RECURSIVE YamlMap(_, _, _, _)
YamlMap(c, i, n, ents) ==
    IF c[i].kind # "key" THEN YamlFail
    ELSE
    LET v == c[i].val
        j == SkipBlank(c, i + 1)
        e == IF v.kind \in {"str", "int"} THEN YamlScalar(c, i + 1, n, v.items)
             ELSE IF v.kind \in {"map", "list"} THEN
                 \* after a flow collection only a key of this mapping or a
                 \* dedent may follow
                 IF j <= Len(c) /\ c[j].ind > n THEN YamlFail
                 ELSE [ok |-> TRUE, next |-> j, val |-> v, ents |-> <<>>]
             ELSE IF j <= Len(c) /\ c[j].kind = "item" /\ c[j].ind >= n THEN
                 YamlSeq(c, j, c[j].ind, <<>>)
             ELSE IF j > Len(c) \/ c[j].ind <= n THEN
                 [ok |-> TRUE, next |-> j, val |-> v, ents |-> <<>>]
             ELSE IF c[j].kind = "key" THEN
                 LET sub == YamlMap(c, j, c[j].ind, <<>>)
                 IN  IF ~sub.ok THEN YamlFail
                     ELSE [ok |-> TRUE, next |-> sub.next,
                           val |-> MapValue(sub.ents), ents |-> <<>>]
             ELSE YamlScalar(c, j + 1, n, c[j].words)
        more == Append(ents, [key |-> c[i].key, val |-> e.val])
    IN  IF ~e.ok THEN YamlFail
        ELSE IF e.next > Len(c) \/ c[e.next].ind < n
             THEN [ok |-> TRUE, next |-> e.next, val |-> e.val, ents |-> more]
        ELSE IF c[e.next].ind > n THEN YamlFail
        ELSE YamlMap(c, e.next, n, more)

\* status "dict": a mapping, with its entries in text order;
\* "notdict": valid YAML that is no mapping; "error": yaml.YAMLError.
YamlSafeLoad(fm_text) ==
    LET c == [i \in 1..Len(fm_text) |-> YamlLine(fm_text[i])]
        j == SkipBlank(c, 1)
    IN  IF j > Len(c) THEN [status |-> "notdict", ents |-> <<>>]
        ELSE IF c[j].kind = "item" THEN [status |-> "notdict", ents |-> <<>>]
        ELSE IF c[j].kind = "text" THEN
            IF YamlScalar(c, j + 1, -1, c[j].words).ok
            THEN [status |-> "notdict", ents |-> <<>>]
            ELSE [status |-> "error", ents |-> <<>>]
        ELSE LET r == YamlMap(c, j, c[j].ind, <<>>)
             IN  IF r.ok /\ r.next > Len(c)
                 THEN [status |-> "dict", ents |-> r.ents]
                 ELSE [status |-> "error", ents |-> <<>>]

\* fm_dict.get("metadata", {}) or {}: the value of the last "metadata" entry
\* (a later duplicate key replaces an earlier one); a missing or null value
\* and the number 0 are the empty mapping.
ExistingMetadata(fm_dict) ==
    LET at == {k \in 1..Len(fm_dict.ents) : fm_dict.ents[k].key = <<"metadata">>}
    IN  IF at = {} THEN MapValue(<<>>)
        ELSE LET v == fm_dict.ents[CHOOSE k \in at : \A m \in at : m <= k].val
             IN  IF v.kind = "null" \/ v = IntValue("0") THEN MapValue(<<>>)
                 ELSE v

\* `field in existing_metadata`: a key of a mapping, an item of a list, a
\* substring of a string (decided on the string's words).
InExisting(field, existing_metadata) ==
    IF existing_metadata.kind = "map" THEN <<field>> \in existing_metadata.keys
    ELSE field \in existing_metadata.toks

\* Phase 2 evaluates `"f" not in existing_metadata` for every field f that
\* is not in extracted_lines (`and` does not evaluate it for the others),
\* and `field in existing_metadata` raises TypeError when existing_metadata
\* is a number ("argument of type 'int' is not iterable").
Phase2Raises(extracted_lines, existing_metadata) ==
    /\ existing_metadata.kind = "int"
    /\ \E f \in FIELDS_TO_MIGRATE : f \notin DOMAIN extracted_lines

\* ------------------------------------------------------- Phase 2: inference
\* The hyphen-separated name of a path segment as tokens: "-".join(parts)
RECURSIVE HyphenJoin(_)
HyphenJoin(parts) ==
    IF Len(parts) <= 1 THEN parts
    ELSE <<parts[1], "-">> \o HyphenJoin(Tail(parts))

\* DirAuthor that never looks at the path.
DirAuthor_AlwaysUnknown(parts) == <<"unknown">>

\* parts = skill_dir.replace(SKILLS_DIR + os.sep, "").split(os.sep)
DirAuthor(parts) == IF Len(parts) >= 2 THEN parts[1] ELSE <<"unknown">>

\* parts[1], or os.path.basename(skill_dir)
SkillName(parts) == IF Len(parts) >= 2 THEN parts[2] ELSE parts[Len(parts)]

\* name_parts[:3] if len(name_parts) > 3 else name_parts
TagParts == 3

\* Unique that removes no duplicate.
Unique_KeepsAll(tag_list, seen) == tag_list

RECURSIVE Unique(_, _)
Unique(tag_list, seen) ==
    IF tag_list = <<>> THEN <<>>
    ELSE IF tag_list[1] \in seen THEN Unique(Tail(tag_list), seen)
    ELSE <<tag_list[1]>> \o Unique(Tail(tag_list), seen \cup {tag_list[1]})

DerivedTags(name_parts) ==
    LET tag_list == IF Len(name_parts) > TagParts
                    THEN SubSeq(name_parts, 1, TagParts) ELSE name_parts
    IN  Unique(Append(tag_list, "curated"), {})

\* ", ".join(unique)
RECURSIVE CommaJoin(_)
CommaJoin(items) ==
    IF Len(items) <= 1 THEN items
    ELSE <<items[1], ",", SP>> \o CommaJoin(Tail(items))

\* NeedsInfer without the look into the nested mapping.
NeedsInfer_IgnoreNested(field, extracted_lines, existing_metadata) ==
    <<field>> \notin DOMAIN extracted_lines

\* `"f" not in extracted_lines and "f" not in existing_metadata`
NeedsInfer(field, extracted_lines, existing_metadata) ==
    /\ <<field>> \notin DOMAIN extracted_lines
    /\ ~InExisting(field, existing_metadata)

InferredLines(extracted_lines, existing_metadata, parts) ==
    (IF NeedsInfer("author", extracted_lines, existing_metadata)
     THEN << <<SP, SP, "author", COLON, SP>> \o HyphenJoin(DirAuthor(parts)) >>
     ELSE <<>>)
    \o
    (IF NeedsInfer("repo", extracted_lines, existing_metadata)
     THEN << <<SP, SP, "repo", COLON, SP, "github.com/malarbase/agent-skills">> >>
     ELSE <<>>)
    \o
    (IF NeedsInfer("tags", extracted_lines, existing_metadata)
     THEN << <<SP, SP, "tags", COLON, SP, "[">>
             \o CommaJoin(DerivedTags(SkillName(parts))) \o <<"]">> >>
     ELSE <<>>)

\* -------------------------------------------- Phase 3: the lines to inject
\* any(k == "metadata" for k, _ in parsed if k is not None and k not in FIELDS_TO_MIGRATE)
HasMetadataKey(parsed) ==
    \E i \in 1..Len(parsed) :
        /\ parsed[i].haskey
        /\ parsed[i].key \notin FIELDS_TO_MIGRATE
        /\ parsed[i].key = <<"metadata">>

FieldOrder == <<"author", "repo", "tags">>

RECURSIVE IndentAll(_)
IndentAll(raw_lines) ==
    IF raw_lines = <<>> THEN <<>>
    ELSE <<Indent(raw_lines[1])>> \o IndentAll(Tail(raw_lines))

\* ExtractedBlock that walks the fields from tags back to author.
ExtractedBlock_Reversed(extracted_lines, i) ==
    (IF <<"tags">> \in DOMAIN extracted_lines
     THEN IndentAll(extracted_lines[<<"tags">>]) ELSE <<>>)
    \o (IF <<"repo">> \in DOMAIN extracted_lines
        THEN IndentAll(extracted_lines[<<"repo">>]) ELSE <<>>)
    \o (IF <<"author">> \in DOMAIN extracted_lines
        THEN IndentAll(extracted_lines[<<"author">>]) ELSE <<>>)

RECURSIVE ExtractedBlock(_, _)
ExtractedBlock(extracted_lines, i) ==
    IF i > Len(FieldOrder) THEN <<>>
    ELSE (IF <<FieldOrder[i]>> \in DOMAIN extracted_lines
          THEN IndentAll(extracted_lines[<<FieldOrder[i]>>]) ELSE <<>>)
         \o ExtractedBlock(extracted_lines, i + 1)

\* MetaBlockLines that opens a new "metadata:" header whether or not the
\* block has one.
MetaBlockLines_AlwaysHeader(has_metadata_key, extracted_lines, inferred_lines) ==
    <<L_meta>> \o ExtractedBlock(extracted_lines, 1) \o inferred_lines

MetaBlockLines(has_metadata_key, extracted_lines, inferred_lines) ==
    (IF ~has_metadata_key THEN <<L_meta>> ELSE <<>>)
    \o ExtractedBlock(extracted_lines, 1)
    \o inferred_lines

\* ------------------------------------------------------ Phase 4: reassemble
\* One iteration of the loop over keep_lines.
Phase4Step(st, line, meta_block_lines) ==
    IF ~st.metadata_done /\ StartsWithMetadata(line)
    THEN [st EXCEPT !.in_metadata = TRUE, !.new_keep = Append(@, line)]
    ELSE IF ~st.metadata_done /\ st.in_metadata
    THEN IF line # <<>> /\ IsSpaceFirst(line)
         THEN [st EXCEPT !.new_keep = Append(@, line)]
         ELSE [st EXCEPT !.new_keep = Append(@ \o meta_block_lines, line),
                         !.in_metadata = FALSE,
                         !.metadata_done = TRUE]
    ELSE [st EXCEPT !.new_keep = Append(@, line)]

RECURSIVE Phase4Loop(_, _, _, _)
Phase4Loop(keep_lines, i, st, meta_block_lines) ==
    IF i > Len(keep_lines) THEN st
    ELSE Phase4Loop(keep_lines, i + 1,
                    Phase4Step(st, keep_lines[i], meta_block_lines),
                    meta_block_lines)

\* Phase4 that puts a new sub-block before the kept lines.
Phase4_InjectFirst(has_metadata_key, keep_lines, meta_block_lines) ==
    IF has_metadata_key
    THEN LET st == Phase4Loop(keep_lines, 1,
                              [new_keep |-> <<>>, in_metadata |-> FALSE,
                               metadata_done |-> FALSE],
                              meta_block_lines)
         IN  IF st.in_metadata /\ ~st.metadata_done
             THEN st.new_keep \o meta_block_lines
             ELSE st.new_keep
    ELSE meta_block_lines \o keep_lines

Phase4(has_metadata_key, keep_lines, meta_block_lines) ==
    IF has_metadata_key
    THEN LET st == Phase4Loop(keep_lines, 1,
                              [new_keep |-> <<>>, in_metadata |-> FALSE,
                               metadata_done |-> FALSE],
                              meta_block_lines)
         IN  IF st.in_metadata /\ ~st.metadata_done
             THEN st.new_keep \o meta_block_lines
             ELSE st.new_keep
    ELSE keep_lines \o meta_block_lines

\* NewContent that loses the closing delimiter line.
NewContent_NoClosingDelim(keep_lines, rest) ==
    <<DELIM>> \o Join(keep_lines) \o Tail(rest)

\* new_content = f"---\n{new_fm_text}\n{rest}", new_fm_text = "\n".join(keep_lines)
NewContent(keep_lines, rest) == <<DELIM>> \o Join(keep_lines) \o rest

\* ------------------------------------------------------------ migrate_skill
\* The locals of a run that returns before Phase 1.
NoFrame ==
    [extracted_lines |-> <<>>, keep_lines |-> <<>>, inferred_lines |-> <<>>,
     changed |-> FALSE, has_metadata_key |-> FALSE, meta_block_lines |-> <<>>,
     new_keep |-> <<>>]

Rejected(msg) ==
    [ret |-> FALSE, raised |-> FALSE, printed |-> msg, writes |-> <<>>,
     frame |-> NoFrame]

\* A run that ends in an uncaught exception: no value is returned (ret is
\* FALSE in the record), nothing was written.
Raised(frame) ==
    [ret |-> FALSE, raised |-> TRUE, printed |-> "", writes |-> <<>>,
     frame |-> frame]

\* Finish that writes the opening delimiter first and the document after it.
Finish_TwoWrites(dry_run, new_content, frame) ==
    IF dry_run
    THEN [ret |-> TRUE, raised |-> FALSE, printed |-> "WOULD CHANGE", writes |-> <<>>, frame |-> frame]
    ELSE [ret |-> TRUE, raised |-> FALSE, printed |-> "",
          writes |-> << <<DELIM>>, new_content >>, frame |-> frame]

\* Finish that writes the file in a dry run too.
Finish_DryRunWrites(dry_run, new_content, frame) ==
    [ret |-> TRUE, raised |-> FALSE, printed |-> IF dry_run THEN "WOULD CHANGE" ELSE "",
     writes |-> <<new_content>>, frame |-> frame]

\* `if dry_run: print WOULD CHANGE; return True` / `f.write(new_content); return True`
Finish(dry_run, new_content, frame) ==
    IF dry_run
    THEN [ret |-> TRUE, raised |-> FALSE, printed |-> "WOULD CHANGE", writes |-> <<>>, frame |-> frame]
    ELSE [ret |-> TRUE, raised |-> FALSE, printed |-> "", writes |-> <<new_content>>, frame |-> frame]

\* Phases 1 to 4 on a frontmatter that parsed to the mapping fm_dict.
Transform(fm_text, rest, fm_dict, parts, dry_run) ==
    LET parsed   == ParseFmLines(fm_text)
        p1       == Phase1(parsed)
        inferred == InferredLines(p1.extracted_lines, ExistingMetadata(fm_dict), parts)
        changed  == p1.changed \/ inferred # <<>>
        hasmeta  == HasMetadataKey(parsed)
        block    == MetaBlockLines(hasmeta, p1.extracted_lines, inferred)
        new_keep == Phase4(hasmeta, p1.keep_lines, block)
        frame    == [extracted_lines |-> p1.extracted_lines,
                     keep_lines |-> p1.keep_lines,
                     inferred_lines |-> inferred,
                     changed |-> changed,
                     has_metadata_key |-> hasmeta,
                     meta_block_lines |-> IF changed THEN block ELSE <<>>,
                     new_keep |-> IF changed THEN new_keep ELSE <<>>]
    IN  IF Phase2Raises(p1.extracted_lines, ExistingMetadata(fm_dict))
        THEN Raised([extracted_lines |-> p1.extracted_lines,
                     keep_lines |-> p1.keep_lines, inferred_lines |-> <<>>,
                     changed |-> p1.changed, has_metadata_key |-> FALSE,
                     meta_block_lines |-> <<>>, new_keep |-> <<>>])
        ELSE IF ~changed
        THEN [ret |-> FALSE, raised |-> FALSE, printed |-> "", writes |-> <<>>,
              frame |-> frame]
        ELSE Finish(dry_run, NewContent(new_keep, rest), frame)

\* migrate_skill(skill_dir, dry_run) on a SKILL.md holding `content`:
\* the value returned, the line it prints, the texts it writes to the file
\* (in order) and its locals when it returns.
MigrateSkill(content, parts, dry_run) ==
    IF content = NoFile THEN Rejected("")
    ELSE LET split == SplitFrontmatter(content)
             fm_dict == YamlSafeLoad(split.fm_text)
         IN  IF ~split.matched THEN Rejected("SKIP (no frontmatter)")
             ELSE IF fm_dict.status = "notdict"
                  THEN Rejected("SKIP (frontmatter is not a dict)")
             ELSE IF fm_dict.status = "error" THEN Rejected("SKIP (invalid YAML)")
             ELSE Transform(split.fm_text, split.rest, fm_dict, parts, dry_run)

\* The file after the writes of a run.
AfterWrites(content, writes) ==
    IF writes = <<>> THEN content ELSE writes[Len(writes)]

\* ------------------------------------------- skill_utils.ensure_metadata
\* FIELDS_TO_MIGRATE of skill_utils.py
CuratorFieldsToMigrate ==
    {<<"author">>, <<"repo">>, <<"tags">>, <<"displayName">>, <<"version">>}

\* re.match(r"^---\n(.*?)\n---\n?(.*)", content, re.DOTALL): the first line
\* is "---"; the frontmatter ends before the first later line that starts
\* with "---" and follows at least one frontmatter line.  0 when there is
\* no match.
EnsureClosing(content) ==
    LET cands == {j \in 3..Len(content) :
                     content[j] # <<>> /\ content[j][1] = "---"}
    IN  IF Len(content) >= 1 /\ content[1] = DELIM /\ cands # {}
        THEN CHOOSE j \in cands : \A k \in cands : j <= k
        ELSE 0

\* match.group(1) and match.group(2) (body: what follows the closing "---"
\* and one "\n" if there is one), each as its lines
EnsureSplit(content) ==
    LET j == EnsureClosing(content)
    IN  [matched |-> j # 0,
         fm_text |-> IF j # 0 THEN SubSeq(content, 2, j - 1) ELSE <<>>,
         body    |-> IF j = 0 THEN <<>>
                     ELSE IF Len(content[j]) > 1
                          THEN <<Tail(content[j])>> \o SubSeq(content, j + 1, Len(content))
                     ELSE IF j < Len(content)
                          THEN SubSeq(content, j + 1, Len(content))
                     ELSE << <<>> >>]

\* key in dict
DictHas(d, key) == \E i \in 1..Len(d) : d[i].key = key

\* dict[key]
DictGet(d, key) == d[CHOOSE i \in 1..Len(d) : d[i].key = key].val

\* dict.pop(key): the dict without the entry
RECURSIVE DictPop(_, _)
DictPop(d, key) ==
    IF d = <<>> THEN <<>>
    ELSE IF d[1].key = key THEN DictPop(Tail(d), key)
    ELSE <<d[1]>> \o DictPop(Tail(d), key)

\* `value or {}`: None, 0, an empty mapping and an empty list are falsy
OrEmptyDict(v) ==
    IF v.kind = "null" \/ v = IntValue("0")
       \/ (v.kind \in {"map", "list"} /\ v.items = <<>>)
    THEN MapValue(<<>>) ELSE v

\* metadata[key] = val: item assignment works on a dict only (TypeError on
\* a str or a list)
SetItem(st, key, val) ==
    IF st.metadata.kind # "map" THEN [st EXCEPT !.raised = TRUE]
    ELSE [st EXCEPT !.metadata =
            [kind |-> "map", keys |-> @.keys \cup {key}, toks |-> {},
             items |-> DictSet(@.items, key, val)]]

\* `for field in FIELDS_TO_MIGRATE: if field in fm: metadata[field] =
\* fm.pop(field)`, the set being walked in the order `order`
RECURSIVE MoveFields(_, _)
MoveFields(st, order) ==
    IF order = <<>> \/ st.raised THEN st
    ELSE IF DictHas(st.fm, order[1])
         THEN MoveFields(
                  SetItem([st EXCEPT !.fm = DictPop(@, order[1])],
                          order[1], DictGet(st.fm, order[1])),
                  Tail(order))
         ELSE MoveFields(st, Tail(order))

\* os.path.basename(path.rstrip("/")).split("-")
Basename(parts) == parts[Len(parts)]

\* derived / unique of ensure_metadata
EnsureDerivedTags(name_parts) ==
    LET derived == IF Len(name_parts) > TagParts
                   THEN SubSeq(name_parts, 1, TagParts) ELSE name_parts
    IN  Unique(Append(derived, "curated"), {})

\* PopulateTags that treats the caller's tags as it treats the name: the
\* sentinel appended, duplicates removed.
PopulateTags_Normalised(st, parts, tags) ==
    IF st.raised \/ InExisting("tags", st.metadata) THEN st
    ELSE SetItem(st, <<"tags">>,
                 ListValue(IF tags # <<>> THEN Unique(Append(tags, "curated"), {})
                           ELSE EnsureDerivedTags(Basename(parts))))

\* `if "tags" not in metadata`: the caller's tags when truthy, else the
\* tags derived from the name
PopulateTags(st, parts, tags) ==
    IF st.raised \/ InExisting("tags", st.metadata) THEN st
    ELSE SetItem(st, <<"tags">>,
                 ListValue(IF tags # <<>> THEN tags
                           ELSE EnsureDerivedTags(Basename(parts))))

\* PopulateRepo that fills in a repository of its own when the caller gave none.
PopulateRepo_OwnDefault(st, source_repo) ==
    IF st.raised \/ InExisting("repo", st.metadata) THEN st
    ELSE SetItem(st, <<"repo">>,
                 StrValue(IF source_repo = <<>>
                          THEN <<"github.com/malarbase/agent-skills">>
                          ELSE source_repo))

\* `if source_repo and "repo" not in metadata`
PopulateRepo(st, source_repo) ==
    IF st.raised \/ source_repo = <<>> \/ InExisting("repo", st.metadata)
    THEN st
    ELSE SetItem(st, <<"repo">>, StrValue(source_repo))

\* `if "author" not in metadata`
PopulateAuthor(st, author) ==
    IF st.raised \/ InExisting("author", st.metadata) THEN st
    ELSE SetItem(st, <<"author">>, StrValue(author))

\* "Populate missing fields": author, then repo when source_repo is truthy,
\* then tags.  None and the empty string or list are <<>>.
Populate(st, parts, author, source_repo, tags) ==
    PopulateTags(PopulateRepo(PopulateAuthor(st, author), source_repo),
                 parts, tags)

\* " ".join(words)
RECURSIVE JoinWords(_)
JoinWords(ws) ==
    IF Len(ws) <= 1 THEN ws ELSE <<ws[1], SP>> \o JoinWords(Tail(ws))

\* yaml.dump of a string with line breaks, after `head`: single-quoted,
\* every line break written as an empty line, the text after it indented
\* two more than the key.
RECURSIVE DumpQuoted(_, _, _, _)
DumpQuoted(items, n, cur, pending) ==
    IF items = <<>> THEN << cur \o <<"'">> >>
    ELSE IF items[1] = "\n"
         THEN (IF pending THEN <<cur>> ELSE <<>>) \o << <<>> >>
              \o DumpQuoted(Tail(items), n, Spaces(n + 2), FALSE)
    ELSE DumpQuoted(Tail(items), n,
                    IF pending THEN cur \o <<SP, items[1]>> ELSE cur \o <<items[1]>>,
                    TRUE)

\* yaml.dump(d, default_flow_style=False, sort_keys=False) of the dict d as
\* a block mapping indented n: the entries in insertion order, a string
\* plain on the key's line, None as "null", a list as "- item" lines at the
\* key's indentation, a mapping indented by two, empty collections in flow
\* style.
RECURSIVE DumpMap(_, _)
DumpMap(d, n) ==
    IF d = <<>> THEN <<>>
    ELSE LET v    == d[1].val
             head == Spaces(n) \o d[1].key \o <<COLON>>
             this ==
                IF v.kind = "null" THEN << head \o <<SP, "null">> >>
                ELSE IF v.kind = "str" THEN
                    IF \E i \in 1..Len(v.items) : v.items[i] = "\n"
                    THEN DumpQuoted(v.items, n, head \o <<SP, "'">>, FALSE)
                    ELSE << head \o <<SP>> \o JoinWords(v.items) >>
                ELSE IF v.kind = "list" THEN
                    IF v.items = <<>> THEN << head \o <<SP, "[", "]">> >>
                    ELSE <<head>> \o [i \in 1..Len(v.items) |->
                                        Spaces(n) \o <<"-", SP, v.items[i]>>]
                ELSE IF v.items = <<>> THEN << head \o <<SP, "{", "}">> >>
                ELSE <<head>> \o DumpMap(v.items, n + 2)
         IN  this \o DumpMap(Tail(d), n)

\* new_content = f"---\n{fm_text}\n---\n{body}"
EnsureContent(fm_lines, body) == <<DELIM>> \o fm_lines \o <<DELIM>> \o body

\* A run of ensure_metadata that returns before it writes.
EnsureReturns(raised) ==
    [raised |-> raised, writes |-> <<>>,
     frame |-> [fm |-> <<>>, metadata |-> NullValue]]

\* `fm["metadata"] = metadata` and the write, or the exception on its way
EnsureWrite(st, body) ==
    IF st.raised THEN EnsureReturns(TRUE)
    ELSE [raised |-> FALSE,
          writes |-> << EnsureContent(
                           DumpMap(DictSet(st.fm, <<"metadata">>, st.metadata), 0),
                           body) >>,
          frame |-> [fm |-> DictSet(st.fm, <<"metadata">>, st.metadata),
                     metadata |-> st.metadata]]

\* `metadata = fm.get("metadata", {}) or {}`
EnsureStart(fm) ==
    [fm |-> fm, raised |-> FALSE,
     metadata |-> IF DictHas(fm, <<"metadata">>)
                  THEN OrEmptyDict(DictGet(fm, <<"metadata">>))
                  ELSE MapValue(<<>>)]

\* ensure_metadata after yaml.safe_load gave `loaded`
EnsureLoaded(loaded, body, parts, author, source_repo, tags, order) ==
    IF loaded.status # "dict" THEN EnsureReturns(FALSE)
    ELSE EnsureWrite(Populate(MoveFields(EnsureStart(AsDict(loaded.ents)), order),
                              parts, author, source_repo, tags),
                     body)

\* ensure_metadata after the regular expression was matched
EnsureMatched(split, parts, author, source_repo, tags, order) ==
    IF ~split.matched THEN EnsureReturns(FALSE)
    ELSE EnsureLoaded(YamlSafeLoad(split.fm_text), split.body,
                      parts, author, source_repo, tags, order)

\* ensure_metadata(path, author, source_repo, tags) on a SKILL.md holding
\* `content`: whether it raised, the texts it writes to the file and its
\* locals fm and metadata at the end.
EnsureMetadata(content, parts, author, source_repo, tags, order) ==
    IF content = NoFile THEN EnsureReturns(FALSE)
    ELSE EnsureMatched(EnsureSplit(content), parts, author, source_repo, tags, order)

\* The sequences that hold every element of S once.
Perms(S) ==
    {f \in [1..Cardinality(S) -> S] :
        \A i \in 1..Cardinality(S) : \A j \in 1..Cardinality(S) :
            i # j => f[i] # f[j]}

\* The fields of FIELDS_TO_MIGRATE that are keys of the loaded frontmatter.
PresentFields(loaded) ==
    IF loaded.status = "dict"
    THEN {f \in CuratorFieldsToMigrate :
             \E i \in 1..Len(loaded.ents) : loaded.ents[i].key = f}
    ELSE {}

\* FIELDS_TO_MIGRATE is a set of strings, walked in hash order, which
\* differs from one interpreter run to the next: the orders in which the
\* loop can meet those of its fields that are keys of the frontmatter.
WalkOrders(content) ==
    IF content = NoFile \/ EnsureClosing(content) = 0 THEN {<<>>}
    ELSE Perms(PresentFields(YamlSafeLoad(EnsureSplit(content).fm_text)))

\* ------------------------------------------------------------------ actions
TypeOK ==
    /\ skill_dir \in SkillDirs
    /\ calls \in 0..MaxCalls
    /\ Len(log) <= calls

Init ==
    /\ file \in Documents \cup {NoFile}
    /\ skill_dir \in SkillDirs
    /\ calls = 0
    /\ log = <<>>

\* The effect of a run r of migrate_skill on the file, and its record in
\* the log (which keeps the latest two runs): the program run, the file
\* before and after, what was returned, printed and written, and the locals
\* at return.
Apply(dry_run, r) ==
    /\ file' = AfterWrites(file, r.writes)
    /\ calls' = calls + 1
    /\ log' = Append(IF Len(log) <= 1 THEN log ELSE Tail(log),
                     [prog |-> "migrate_skill", dry_run |-> dry_run, before |-> file,
                      after |-> AfterWrites(file, r.writes),
                      ret |-> r.ret, raised |-> r.raised, printed |-> r.printed,
                      writes |-> r.writes, frame |-> r.frame])
    /\ UNCHANGED skill_dir

\* A direct call migrate_skill(skill_dir, dry_run).
Migrate(dry_run) ==
    /\ calls < MaxCalls
    /\ Apply(dry_run, MigrateSkill(file, skill_dir, dry_run))

\* `if migrate_skill(...): print MIGRATED else: print NO CHANGE`: what main
\* prints for a skill is decided by the returned value alone.
Report(ret) == IF ret THEN "MIGRATED" ELSE "NO CHANGE"

\* One run of main() over a skills directory holding this one skill
\* directory: a directory without SKILL.md is passed over (`continue`),
\* otherwise migrate_skill is called and Report(its result) printed.
Main(dry_run) ==
    /\ calls < MaxCalls
    /\ IF file = NoFile
       THEN calls' = calls + 1 /\ UNCHANGED <<file, skill_dir, log>>
       ELSE Apply(dry_run, MigrateSkill(file, skill_dir, dry_run))

Next ==
    \/ \E dry_run \in BOOLEAN : Migrate(dry_run)
    \/ \E dry_run \in BOOLEAN : Main(dry_run)

Spec == Init /\ [][Next]_vars

\* ------------------------------------------------- ensure_metadata runs
\* The arguments ensure_metadata is called with: source_repo None (<<>>) or
\* a repository, tags None (<<>>) or an explicit list.
Authors == {<<"carol">>}
SourceRepos == {<<>>, <<"r2">>}
TagArgs == {<<>>, <<"t1", "t1">>}

\* The effect of a run r of ensure_metadata on the file, and its record in
\* the log: ensure_metadata returns None and prints nothing.
EnsureApply(author, source_repo, tags, r) ==
    /\ file' = AfterWrites(file, r.writes)
    /\ calls' = calls + 1
    /\ log' = Append(IF Len(log) <= 1 THEN log ELSE Tail(log),
                     [prog |-> "ensure_metadata", dry_run |-> FALSE,
                      before |-> file, after |-> AfterWrites(file, r.writes),
                      ret |-> FALSE, raised |-> r.raised, printed |-> "",
                      writes |-> r.writes,
                      frame |-> [author |-> author, source_repo |-> source_repo,
                                 tags |-> tags, raised |-> r.raised,
                                 fm |-> r.frame.fm, metadata |-> r.frame.metadata]])
    /\ UNCHANGED skill_dir

\* A call ensure_metadata(path, author, source_repo, tags).
Ensure(author, source_repo, tags) ==
    /\ calls < MaxCalls
    /\ \E order \in WalkOrders(file) :
          EnsureApply(author, source_repo, tags,
                      EnsureMetadata(file, skill_dir, author, source_repo, tags, order))

NextEnsure ==
    \E author \in Authors : \E source_repo \in SourceRepos : \E tags \in TagArgs :
        Ensure(author, source_repo, tags)

\* The documents ensure_metadata is first run on.
EnsureDocuments ==
    LET fms == SeqsUpTo(LineAlphabet \cup {L_num, L_list}, MaxEnsureLines)
    IN     {<<DELIM>> \o fm \o <<DELIM>> \o BodyTail : fm \in fms}
      \cup {<<DELIM>> \o fm \o <<DELIM>> \o BodyDelim : fm \in {f \in fms : Len(f) <= 1}}
      \* closing delimiter is the last line and has no "\n" after it
      \cup {<<DELIM>> \o fm \o <<DELIM>> : fm \in {f \in fms : Len(f) <= 1}}
      \* no opening delimiter
      \cup {fm \o <<DELIM>> \o BodyTail : fm \in {f \in fms : Len(f) = 1}}

InitEnsure ==
    /\ file \in EnsureDocuments \cup {NoFile}
    /\ skill_dir \in SkillDirs
    /\ calls = 0
    /\ log = <<>>

\* The curator's ensure_metadata run again and again on one SKILL.md.
SpecEnsure == InitEnsure /\ [][NextEnsure]_vars

\* --------------------------------------------------- the tag derivation
\* Documents with no tags field anywhere.
TagDocuments ==
    { <<DELIM, L_name, DELIM>> \o BodyTail,
      <<DELIM, L_meta, L_nauthor, DELIM>> \o BodyTail }

\* Skill names of up to MaxParts segments, and the name pdf-merge-tool-extra.
TagNames ==
    (SeqsUpTo({"pdf", "merge", "curated"}, MaxParts) \ {<<>>})
        \cup {<<"pdf", "merge", "tool", "extra">>}

\* skills/alice/<name> and a path of one segment
TagDirs == {<< <<"alice">>, n >> : n \in TagNames} \cup {<<n>> : n \in TagNames}

InitTags ==
    /\ file \in TagDocuments
    /\ skill_dir \in TagDirs
    /\ calls = 0
    /\ log = <<>>

\* The document is still as Init gave it: nothing ran, or a dry run did.
Fresh == calls = 0 \/ (calls = 1 /\ log[1].dry_run)

\* One run of migrate_skill or of ensure_metadata on a fresh document.
NextTags ==
    \/ calls = 0 /\ \E dry_run \in BOOLEAN : Migrate(dry_run)
    \/ Fresh /\ \E author \in Authors : \E source_repo \in SourceRepos :
                   \E tags \in TagArgs : Ensure(author, source_repo, tags)

SpecTags == InitTags /\ [][NextTags]_vars

\* ------------------------------------- both programs on one SKILL.md
\* The migration script and the curator's ensure_metadata run, in any
\* order, on the same SKILL.md.
NextBoth ==
    \/ \E dry_run \in BOOLEAN : Migrate(dry_run)
    \/ \E author \in Authors : \E source_repo \in SourceRepos :
          \E tags \in TagArgs : Ensure(author, source_repo, tags)

\* The documents the two programs are first run on.
BothDocuments ==
    LET fms == SeqsUpTo(LineAlphabet \cup {L_num, L_list}, MaxBothLines)
    IN     {<<DELIM>> \o fm \o <<DELIM>> \o BodyTail : fm \in fms}
      \cup {<<DELIM>> \o fm \o <<DELIM>> : fm \in {f \in fms : Len(f) <= 1}}
      \cup {fm \o <<DELIM>> \o BodyTail : fm \in {f \in fms : Len(f) = 1}}

InitBoth ==
    /\ file \in BothDocuments \cup {NoFile}
    /\ skill_dir \in SkillDirs
    /\ calls = 0
    /\ log = <<>>

SpecBoth == InitBoth /\ [][NextBoth]_vars

\* ------------------------------------------------ inventory.update_readme
\* A README.md is the sequence of its lines (the text split at "\n", so a
\* text that ends with "\n" has an empty last line); a line is a sequence
\* of tokens.
H_inv == <<"##", SP, "Skills Inventory">>

\* The lines of the READMEs a behaviour starts from: the heading of the
\* inventory, "## Usage", "# Title", "## Skills Inventory Old", "text",
\* "see ## Skills Inventory", an empty line and a line of one space.
ReadmeAlphabet ==
    { H_inv,
      <<"##", SP, "Usage">>,
      <<"#", SP, "Title">>,
      <<"##", SP, "Skills Inventory", SP, "Old">>,
      <<"text">>,
      <<"see", SP, "##", SP, "Skills Inventory">>,
      <<>>,
      <<SP>> }

\* The skill directories below skills/: author directory, skill directory,
\* whether it holds a SKILL.md and the description extract_metadata gives
\* for it (a string, "" when there is none).
E_zip == [author |-> "alice", name |-> "zip", md |-> TRUE, description |-> <<>>]
E_bob == [author |-> "bob", name |-> "pdf-merge", md |-> TRUE,
          description |-> <<"Splits">>]

\* The skills directories a behaviour starts from: any of alice/pdf-merge
\* (described in two sentences), alice/zip and bob/pdf-merge, with or
\* without carol/draft, which has no SKILL.md, and the hidden .git/zip.
SkillTrees ==
    {t \cup x :
        t \in SUBSET {[author |-> "alice", name |-> "pdf-merge", md |-> TRUE,
                       description |-> <<"Merges PDFs", ".", SP, "More">>],
                      E_zip, E_bob},
        x \in {{}, {[author |-> "carol", name |-> "draft", md |-> FALSE,
                     description |-> <<>>],
                    [author |-> ".git", name |-> "zip", md |-> TRUE,
                     description |-> <<>>]}}}

\* The order of sorted() on the names that occur.
Rank(name) ==
    CASE name = ".git" -> 1 [] name = "alice" -> 2 [] name = "bob" -> 3
      [] name = "carol" -> 4 [] name = "draft" -> 5 [] name = "pdf-merge" -> 6
      [] name = "zip" -> 7

\* sorted(names)
RECURSIVE Sorted(_)
Sorted(names) ==
    IF names = {} THEN <<>>
    ELSE LET least == CHOOSE n \in names : \A m \in names : Rank(n) <= Rank(m)
         IN  <<least>> \o Sorted(names \ {least})

\* name.startswith(".")
IsHidden(name) == name = ".git"

\* meta.get("description", "").split(".")[0]
FirstSentence(description) ==
    IF \E i \in 1..Len(description) : description[i] = "."
    THEN SubSeq(description, 1,
                (CHOOSE i \in 1..Len(description) :
                    description[i] = "." /\ \A j \in 1..(i - 1) : description[j] # ".") - 1)
    ELSE description

\* The skills_list of one author: its skill directories in sorted order,
\* those that are hidden or hold no SKILL.md passed over.
SkillsList(tree, author) ==
    LET names == Sorted({e.name : e \in {x \in tree : x.author = author}})
        kept  == SelectSeq(names,
                           LAMBDA n : \E e \in tree :
                               e.author = author /\ e.name = n /\ e.md /\ ~IsHidden(n))
    IN  [i \in 1..Len(kept) |->
            [name |-> kept[i],
             description |-> FirstSentence(
                 (CHOOSE e \in tree : e.author = author /\ e.name = kept[i]).description)]]

\* scan_skills: {author: skills_list} in sorted order of the authors, hidden
\* authors and authors without a skill left out.
ScanSkills(tree) ==
    LET authors == Sorted({e.author : e \in tree})
        kept    == SelectSeq(authors,
                             LAMBDA a : ~IsHidden(a) /\ SkillsList(tree, a) # <<>>)
    IN  [i \in 1..Len(kept) |-> [author |-> kept[i], skill_list |-> SkillsList(tree, kept[i])]]

\* The lines generate_inventory_section adds for one author:
\* "### author (n skill[s])", then "- **name** - desc" if desc else
\* "- **name**" for every skill, then an empty line.
AuthorLines(entry) ==
    << <<"###", SP, entry.author, SP, "(",
         <<"0", "1", "2", "3">>[Len(entry.skill_list) + 1], SP,
         IF Len(entry.skill_list) # 1 THEN "skills" ELSE "skill", ")">> >>
    \o [i \in 1..Len(entry.skill_list) |->
            <<"-", SP, "**", entry.skill_list[i].name, "**">>
            \o (IF entry.skill_list[i].description # <<>>
                THEN <<SP, "-", SP>> \o entry.skill_list[i].description
                ELSE <<>>)]
    \o << <<>> >>

\* generate_inventory_section: "\n".join(lines), as its lines.  The last
\* line is empty: the section ends with "\n".
RECURSIVE GenerateInventorySection(_)
GenerateInventorySection(skills) ==
    IF skills = <<>> THEN <<H_inv, <<>> >>
    ELSE GenerateInventorySection(SubSeq(skills, 1, Len(skills) - 1))
         \o AuthorLines(skills[Len(skills)])

\* re.search(r"## Skills Inventory\n.*?(?=\n## (?!Skills Inventory)|\Z)"):
\* the match starts in the first line that ends with the heading and is
\* not the last line, takes at least the "\n" after it and ends at the end
\* of the first later line that is followed by another section, or at the
\* end of the text.  first = 0 when there is no match.
SearchSection(content) ==
    LET \* "## Skills Inventory\n" is found at the end of line h
        starts == {h \in 1..(Len(content) - 1) :
                      /\ Len(content[h]) >= 3
                      /\ SubSeq(content[h], Len(content[h]) - 2, Len(content[h])) = H_inv}
        h      == CHOOSE x \in starts : \A y \in starts : x <= y
        \* "\n## (?!Skills Inventory)": line k + 1 opens another section
        ends   == {k \in (h + 1)..(Len(content) - 1) :
                      /\ Len(content[k + 1]) >= 2
                      /\ content[k + 1][1] = "##" /\ content[k + 1][2] = SP
                      /\ (Len(content[k + 1]) >= 3 =>
                             content[k + 1][3] # "Skills Inventory")}
    IN  IF starts = {} THEN [first |-> 0, last |-> 0]
        ELSE [first |-> h,
              last |-> IF ends = {} THEN Len(content)
                       ELSE CHOOSE x \in ends : \A y \in ends : x <= y]

\* content.rstrip(), as its lines: the last lines that hold white space
\* only go, and so does the white space that ends the line before them.
RECURSIVE RStripText(_)
RStripText(content) ==
    IF Len(content) > 1 /\ \A i \in 1..Len(content[Len(content)]) :
                               content[Len(content)][i] = SP
    THEN RStripText(SubSeq(content, 1, Len(content) - 1))
    ELSE [content EXCEPT ![Len(content)] = RStrip(@)]

\* new_content of update_readme: with a match m,
\* content[: match.start()] + new_section + content[match.end():], and
\* without one, content.rstrip() + "\n\n" + new_section + "\n".
NewReadme(content, m, new_section) ==
    IF m.first # 0
    THEN SubSeq(content, 1, m.first - 1)
         \o << SubSeq(content[m.first], 1, Len(content[m.first]) - 3) \o new_section[1] >>
         \o Tail(new_section)
         \o SubSeq(content, m.last + 1, Len(content))
    ELSE RStripText(content) \o << <<>> >> \o new_section \o << <<>> >>

\* update_readme(repo_root) on a repository whose README.md holds `content`
\* (NoFile: there is none) and whose skills directory is `tree`:
\* `if new_content == content: return False`, else write and return True.
UpdateReadme(content, tree) ==
    IF content = NoFile
    THEN [ret |-> FALSE, raised |-> FALSE, printed |-> "", writes |-> <<>>,
          frame |-> [new_section |-> <<>>, new_content |-> <<>>]]
    ELSE LET new_section == GenerateInventorySection(ScanSkills(tree))
             new_content == NewReadme(content, SearchSection(content), new_section)
         IN  [ret |-> new_content # content, raised |-> FALSE, printed |-> "",
              writes |-> IF new_content = content THEN <<>> ELSE <<new_content>>,
              frame |-> [new_section |-> new_section, new_content |-> new_content]]

\* The effect of a run r of update_readme on the README.md of the
\* repository, and its record in the log.
ReadmeApply(prog, tree, pushed, printed, r) ==
    /\ file' = IF pushed THEN AfterWrites(file, r.writes) ELSE file
    /\ skill_dir' = tree
    /\ calls' = calls + 1
    /\ log' = Append(IF Len(log) <= 1 THEN log ELSE Tail(log),
                     [prog |-> prog, dry_run |-> FALSE, before |-> file,
                      after |-> IF pushed THEN AfterWrites(file, r.writes) ELSE file,
                      ret |-> r.ret, raised |-> r.raised, printed |-> printed,
                      writes |-> r.writes,
                      frame |-> [tree |-> tree, new_section |-> r.frame.new_section,
                                 new_content |-> r.frame.new_content]])

\* A call update_readme(repo_root) on the repository itself, as the
\* __main__ of inventory.py makes it.
Inventory ==
    /\ calls < MaxCalls
    /\ ReadmeApply("update_readme", skill_dir, TRUE,
                   IF UpdateReadme(file, skill_dir).ret
                   THEN "README.md inventory updated."
                   ELSE "README.md inventory already up to date.",
                   UpdateReadme(file, skill_dir))

\* cmd_land(pr_number): without authentication CuratorError is raised at
\* once; otherwise the pull request is merged, the repository cloned
\* afresh and update_readme run on the clone, whose README.md reaches the
\* repository only when the user has push access; the message printed is
\* decided by what update_readme returned.
Land(auth, merged, push_access) ==
    /\ calls < MaxCalls
    /\ IF ~auth
       THEN /\ calls' = calls + 1
            /\ UNCHANGED <<file, skill_dir, log>>
       ELSE ReadmeApply("cmd_land", skill_dir \cup merged, push_access,
                        IF UpdateReadme(file, skill_dir \cup merged).ret
                        THEN "Inventory updated and pushed."
                        ELSE "Inventory already up to date.",
                        UpdateReadme(file, skill_dir \cup merged))

NextReadme ==
    \/ Inventory
    \* the merged pull request adds no skill, alice/zip or bob/pdf-merge
    \/ \E auth \in BOOLEAN : \E merged \in {{}, {E_zip}, {E_bob}} :
          \E push_access \in BOOLEAN : Land(auth, merged, push_access)

\* README.md is missing, or holds up to MaxReadmeLines lines with or
\* without a final "\n".
InitReadme ==
    /\ file \in {NoFile}
          \cup (SeqsUpTo(ReadmeAlphabet, MaxReadmeLines) \ {<<>>})
          \cup {Append(b, <<>>) : b \in SeqsUpTo(ReadmeAlphabet, MaxReadmeLines) \ {<<>>}}
    /\ skill_dir \in SkillTrees
    /\ calls = 0
    /\ log = <<>>

\* The inventory of README.md regenerated again and again.
SpecReadme == InitReadme /\ [][NextReadme]_vars

\* ------------------------------------------------------- curator.cmd_ship
\* In the runs of cmd_ship, `file` is the staging area STAGING_DIR (whether
\* the directory exists, its author directories and their entries),
\* `skill_dir` the locals and the position of the run, and `log` the steps
\* the current run has made on the file system, git and GitHub.
\* What can lie below STAGING_DIR: two skills that validate (ok), one
\* that does not, and a plain file.
StagingEntries ==
    { [author |-> "alice", name |-> "pdf-merge", isdir |-> TRUE, ok |-> TRUE],
      [author |-> "alice", name |-> "zip", isdir |-> TRUE, ok |-> TRUE],
      [author |-> "bob", name |-> "draft", isdir |-> TRUE, ok |-> FALSE],
      [author |-> "bob", name |-> "zip", isdir |-> FALSE, ok |-> TRUE] }

NoStaging == [exists |-> FALSE, authors |-> {}, entries |-> {}]

\* The skill directories in the order the loops of cmd_ship meet them:
\* sorted(os.listdir(author_dir)) of every author in turn, the entries
\* that are no directories passed over.
RECURSIVE WalkStaging(_, _)
WalkStaging(staging, authors) ==
    IF authors = <<>> THEN <<>>
    ELSE LET names == Sorted({e.name : e \in {x \in staging.entries :
                                                  x.author = Head(authors)}})
         IN  SelectSeq([i \in 1..Len(names) |->
                           CHOOSE e \in staging.entries :
                               e.author = Head(authors) /\ e.name = names[i]],
                       LAMBDA e : e.isdir)
             \o WalkStaging(staging, Tail(authors))

\* One step of a run, as the log keeps it.
Step(op, author, name, ok) == [op |-> op, author |-> author, name |-> name, ok |-> ok]

\* The locals of a run that has not started.
ShipIdle(outcome, at) ==
    [pc |-> "idle", outcome |-> outcome, at |-> at, dry_run |-> FALSE, draft |-> FALSE,
     start |-> NoStaging, todo |-> <<>>, staged |-> <<>>, using_local_repo |-> FALSE,
     pr |-> FALSE]

\* The staging area an exception leaves behind: cmd_ship has no handler
\* and no `finally`, the exception leaves it at once.
Unwind_Finally(staging, staged) ==
    [staging EXCEPT !.entries = @ \ {staged[i] : i \in 1..Len(staged)}]

Unwind(staging, staged) == staging

\* An exception (CuratorError, RuntimeError, CalledProcessError) raised at
\* position `at` ends the run.
ShipRaise(at, steps) ==
    /\ file' = Unwind(file, skill_dir.staged)
    /\ skill_dir' = [skill_dir EXCEPT !.pc = "idle", !.outcome = "raised", !.at = at]
    /\ log' = log \o steps
    /\ UNCHANGED calls

\* The run moves on to position pc, having made `steps`.
ShipGoto(pc, steps) ==
    /\ skill_dir' = [skill_dir EXCEPT !.pc = pc]
    /\ log' = log \o steps
    /\ UNCHANGED <<file, calls>>

\* cmd_ship(draft, dry_run) is called.
ShipStart(draft, dry_run) ==
    /\ skill_dir.pc = "idle"
    /\ calls < MaxCalls
    /\ calls' = calls + 1
    /\ skill_dir' = [ShipIdle("none", "") EXCEPT !.pc = "auth", !.draft = draft,
                                                 !.dry_run = dry_run, !.start = file]
    /\ log' = <<>>
    /\ UNCHANGED file

\* `if not gh.check_auth(): raise CuratorError`
ShipAuth(ok) ==
    /\ skill_dir.pc = "auth"
    /\ IF ok THEN ShipGoto("collect", <<>>) ELSE ShipRaise("auth", <<>>)

\* `if not os.path.isdir(STAGING_DIR): raise`, else the walk over the
\* author directories begins.
ShipCollect ==
    /\ skill_dir.pc = "collect"
    /\ IF ~file.exists THEN ShipRaise("collect", <<>>)
       ELSE /\ skill_dir' = [skill_dir EXCEPT
                                !.pc = "validate",
                                !.todo = WalkStaging(file, Sorted(file.authors))]
            /\ UNCHANGED <<file, calls, log>>

\* The body of the inner loop for the next skill directory: validate_skill,
\* CuratorError on errors, else the skill is appended to `staged`; after the
\* loops, `if not staged: raise CuratorError`.
ShipValidate ==
    /\ skill_dir.pc = "validate"
    /\ IF skill_dir.todo = <<>>
       THEN IF skill_dir.staged = <<>> THEN ShipRaise("collect", <<>>)
            ELSE ShipGoto("plan", <<>>)
       ELSE IF ~Head(skill_dir.todo).ok
            THEN ShipRaise("validate",
                           <<Step("validate", Head(skill_dir.todo).author,
                                  Head(skill_dir.todo).name, FALSE)>>)
            ELSE /\ skill_dir' = [skill_dir EXCEPT
                                     !.todo = Tail(@),
                                     !.staged = Append(@, Head(skill_dir.todo))]
                 /\ log' = Append(log, Step("validate", Head(skill_dir.todo).author,
                                            Head(skill_dir.todo).name, TRUE))
                 /\ UNCHANGED <<file, calls>>

\* Branch name and commit message are chosen; a dry run prints them and
\* returns.
ShipPlan ==
    /\ skill_dir.pc = "plan"
    /\ IF skill_dir.dry_run
       THEN /\ skill_dir' = [skill_dir EXCEPT !.pc = "idle", !.outcome = "returned"]
            /\ UNCHANGED <<file, calls, log>>
       ELSE ShipGoto("prepare", <<>>)

\* In the agent-skills repository itself: uncommitted changes raise
\* CuratorError, else `git checkout -b branch`; elsewhere CLONE_DIR is
\* emptied and the repository cloned.
ShipPrepare(local, dirty, ok) ==
    /\ skill_dir.pc = "prepare"
    /\ IF local /\ dirty THEN ShipRaise("status", <<>>)
       ELSE IF ~ok
       THEN ShipRaise(IF local THEN "branch" ELSE "clone",
                      <<Step(IF local THEN "branch" ELSE "clone", "", "", FALSE)>>)
       ELSE /\ skill_dir' = [skill_dir EXCEPT !.pc = "copy", !.using_local_repo = local]
            /\ log' = Append(log, Step(IF local THEN "branch" ELSE "clone", "", "", TRUE))
            /\ UNCHANGED <<file, calls>>

\* `for author, name, skill_dir in staged: shutil.copytree(skill_dir, dest)`:
\* the copy of the n-th skill may fail.
ShipCopy(n, ok) ==
    /\ skill_dir.pc = "copy"
    /\ n \in 1..Len(skill_dir.staged)
    /\ ok => n = Len(skill_dir.staged)
    /\ LET steps == [i \in 1..n |-> Step("copy", skill_dir.staged[i].author,
                                          skill_dir.staged[i].name, i < n \/ ok)]
       IN  IF ok THEN ShipGoto("commit", steps) ELSE ShipRaise("copy", steps)

\* `git add .` and `git commit -m commit_msg`, check=True
ShipCommit(ok) ==
    /\ skill_dir.pc = "commit"
    /\ IF ok THEN ShipGoto("push", <<Step("commit", "", "", TRUE)>>)
       ELSE ShipRaise("commit", <<Step("commit", "", "", FALSE)>>)

\* With push access the branch is pushed; without, the repository is
\* forked and the branch pushed to the fork.
ShipPush(can_push, fork_ok, push_ok) ==
    /\ skill_dir.pc = "push"
    /\ can_push => fork_ok
    /\ IF ~can_push /\ ~fork_ok
       THEN ShipRaise("fork", <<Step("fork", "", "", FALSE)>>)
       ELSE IF ~push_ok
       THEN ShipRaise("push", (IF can_push THEN <<>> ELSE <<Step("fork", "", "", TRUE)>>)
                              \o <<Step("push", "", "", FALSE)>>)
       ELSE ShipGoto("create_pr", (IF can_push THEN <<>> ELSE <<Step("fork", "", "", TRUE)>>)
                                  \o <<Step("push", "", "", TRUE)>>)

\* The body of the pull request is built and gh.create_pr called.
ShipCreatePr(ok) ==
    /\ skill_dir.pc = "create_pr"
    /\ IF ~ok THEN ShipRaise("create_pr", <<Step("create_pr", "", "", FALSE)>>)
       ELSE /\ skill_dir' = [skill_dir EXCEPT
                                !.pr = TRUE,
                                !.pc = IF skill_dir.using_local_repo THEN "checkout"
                                       ELSE "cleanup",
                                !.todo = skill_dir.staged]
            /\ log' = Append(log, Step("create_pr", "", "", TRUE))
            /\ UNCHANGED <<file, calls>>

\* `git checkout original_branch`, check=True, in the local repository
ShipCheckout(ok) ==
    /\ skill_dir.pc = "checkout"
    /\ IF ok THEN ShipGoto("cleanup", <<Step("checkout", "", "", TRUE)>>)
       ELSE ShipRaise("checkout", <<Step("checkout", "", "", FALSE)>>)

\* `for _, _, skill_dir in staged: shutil.rmtree(skill_dir, ignore_errors=True)`,
\* one staged skill at a time: the directory is removed, or an error is
\* ignored and it stays.
ShipCleanup(removed) ==
    /\ skill_dir.pc = "cleanup"
    /\ skill_dir.todo # <<>>
    /\ file' = IF removed THEN [file EXCEPT !.entries = @ \ {Head(skill_dir.todo)}]
                ELSE file
    /\ skill_dir' = [skill_dir EXCEPT !.todo = Tail(@)]
    /\ log' = Append(log, Step("rmtree", Head(skill_dir.todo).author,
                               Head(skill_dir.todo).name, removed))
    /\ UNCHANGED calls

\* The author directories that are left empty are removed, "PR created" is
\* printed and cmd_ship returns.
ShipFinish ==
    /\ skill_dir.pc = "cleanup"
    /\ skill_dir.todo = <<>>
    /\ file' = [file EXCEPT !.authors = {e.author : e \in file.entries}]
    /\ skill_dir' = [skill_dir EXCEPT !.pc = "idle", !.outcome = "returned"]
    /\ UNCHANGED <<calls, log>>

\* cmd_import stages a skill: STAGING_DIR/author/skill_name is replaced by
\* a copy of the source, whether it validates or not.  What the last run
\* of cmd_ship left in its locals and in the log is forgotten.
Import(e) ==
    /\ skill_dir.pc = "idle"
    /\ e.isdir
    /\ e \notin file.entries
    /\ file' = [exists |-> TRUE, authors |-> file.authors \cup {e.author},
                entries |-> {x \in file.entries : x.author # e.author \/ x.name # e.name}
                            \cup {e}]
    /\ skill_dir' = ShipIdle("none", "")
    /\ log' = <<>>
    /\ UNCHANGED calls

NextShip ==
    \/ \E draft \in BOOLEAN : \E dry_run \in BOOLEAN : ShipStart(draft, dry_run)
    \/ \E ok \in BOOLEAN : ShipAuth(ok)
    \/ ShipCollect
    \/ ShipValidate
    \/ ShipPlan
    \/ \E local \in BOOLEAN : \E dirty \in BOOLEAN : \E ok \in BOOLEAN :
          ShipPrepare(local, dirty, ok)
    \/ \E n \in 1..Cardinality(StagingEntries) : \E ok \in BOOLEAN : ShipCopy(n, ok)
    \/ \E ok \in BOOLEAN : ShipCommit(ok)
    \/ \E can_push \in BOOLEAN : \E fork_ok \in BOOLEAN : \E push_ok \in BOOLEAN :
          ShipPush(can_push, fork_ok, push_ok)
    \/ \E ok \in BOOLEAN : ShipCreatePr(ok)
    \/ \E ok \in BOOLEAN : ShipCheckout(ok)
    \/ \E removed \in BOOLEAN : ShipCleanup(removed)
    \/ ShipFinish
    \/ \E e \in StagingEntries : Import(e)

\* STAGING_DIR is missing, or holds any of the entries, each in the
\* directory of its author.
InitShip ==
    /\ file \in {NoStaging}
          \cup {[exists |-> TRUE, authors |-> {e.author : e \in es}, entries |-> es] :
                   es \in SUBSET StagingEntries}
    /\ skill_dir = ShipIdle("none", "")
    /\ calls = 0
    /\ log = <<>>

\* cmd_ship run again and again on one staging area, skills being imported
\* between the runs.
SpecShip == InitShip /\ [][NextShip]_vars

\* =========================================================== the claims
SkipMessages == {"SKIP (no frontmatter)", "SKIP (frontmatter is not a dict)",
                 "SKIP (invalid YAML)"}

Calls == {log[i] : i \in 1..Len(log)}

\* The call that led to the current state.  Every call is the latest call
\* of the state it leads to, so a property of the latest call that holds in
\* every reachable state holds of every call.
Latest == IF log = <<>> THEN {} ELSE {log[Len(log)]}

\* the call read a file whose frontmatter parsed to a mapping
Valid(e) == e.before # NoFile /\ e.printed \notin SkipMessages

\* the call rejected the document as malformed
Malformed(e) == e.printed \in SkipMessages

Wrote(e) == e.writes # <<>>

\* the metadata block of the file before and after a call, as its lines
InBlock(e) == SplitFrontmatter(e.before).fm_text
OutBlock(e) == SplitFrontmatter(e.after).fm_text

IsKeyLine(line, key) == ParseLine(line).haskey /\ ParseLine(line).key = key
IsTargetLine(line) == ParseLine(line).haskey /\ ParseLine(line).key \in FIELDS_TO_MIGRATE
IsNullKeyLine(line) == ~ParseLine(line).haskey

\* Line i of a block belongs to the field opened by the key line k: every
\* line after k up to i is a null-key line.
OpenedBy(lines, i, k) ==
    k <= i /\ ParseLine(lines[k]).haskey
           /\ \A m \in (k + 1)..i : IsNullKeyLine(lines[m])

\* Line i belongs to a migrated field: to a field opened by a target key line.
BelongsToMigrated(lines, i) ==
    \E k \in 1..i : OpenedBy(lines, i, k) /\ IsTargetLine(lines[k])

\* The lines of `lines` at the indices in S, in order.
RECURSIVE Pick(_, _, _)
Pick(lines, S, i) ==
    IF i > Len(lines) THEN <<>>
    ELSE (IF i \in S THEN <<lines[i]>> ELSE <<>>) \o Pick(lines, S, i + 1)

NonMigrated(lines) ==
    Pick(lines, {i \in 1..Len(lines) : ~BelongsToMigrated(lines, i)}, 1)

\* a is a subsequence of b: b holds a's lines, as often and in a's order
RECURSIVE IsSubseq(_, _)
IsSubseq(a, b) ==
    IF a = <<>> THEN TRUE
    ELSE IF b = <<>> THEN FALSE
    ELSE IF a[1] = b[1] THEN IsSubseq(Tail(a), Tail(b))
    ELSE IsSubseq(a, Tail(b))

Count(lines, l) == Cardinality({i \in 1..Len(lines) : lines[i] = l})

\* The extracted lines re-indented, then the inferred lines: what a run
\* has to inject.
Injected(e) == ExtractedBlock(e.frame.extracted_lines, 1) \o e.frame.inferred_lines

\* inj stands in out as one block that starts inside a metadata sub-block:
\* after a metadata key line and the indented lines that follow it.
InjectedInSubBlock(out, inj) ==
    \E s \in 2..(Len(out) - Len(inj) + 1) :
        /\ SubSeq(out, s, s + Len(inj) - 1) = inj
        /\ \E m \in 1..(s - 1) :
              /\ IsKeyLine(out[m], <<"metadata">>)
              /\ \A k \in (m + 1)..(s - 1) : IsSpaceFirst(out[k])

\* C1: a second migrate_skill on the output of a first (non-dry) run of a
\* document with valid frontmatter returns False and leaves the text as the
\* first run left it.
C1_Idempotent ==
    \A i \in 1..(Len(log) - 1) :
        (Valid(log[i]) /\ ~log[i].dry_run)
            => (log[i + 1].ret = FALSE /\ log[i + 1].after = log[i].after)

\* C2: every line of the input metadata block that belongs to no migrated
\* field is in the output metadata block, as often and in the same order.
C2_LineConservation ==
    \A e \in Calls : Wrote(e) => IsSubseq(NonMigrated(InBlock(e)), OutBlock(e))

MetadataKeyLines(lines) ==
    Cardinality({i \in 1..Len(lines) : IsKeyLine(lines[i], <<"metadata">>)})

\* C3 (as claimed): after a migration that changes the document the output
\* metadata block holds exactly one top-level key line with key metadata.
C3_ExactlyOneNestingKey ==
    \A e \in Calls : Wrote(e) => MetadataKeyLines(OutBlock(e)) = 1

\* C3 (amended): a migration adds a metadata key line only when the input
\* block had none: the output block has as many metadata key lines as the
\* input block had, and exactly one when the input block had none.
C3_NoNestingKeyAdded ==
    \A e \in Latest :
        Wrote(e) =>
            MetadataKeyLines(OutBlock(e)) =
                IF MetadataKeyLines(InBlock(e)) = 0 THEN 1
                ELSE MetadataKeyLines(InBlock(e))

\* C3 witness: a migration that found no metadata key line and created one.
C3_Witness ==
    \E e \in Calls :
        /\ Wrote(e) /\ MetadataKeyLines(InBlock(e)) = 0
        /\ MetadataKeyLines(OutBlock(e)) = 1

\* C4: whenever migrate_skill changes a document, the extracted and the
\* inferred lines stand in the output block once each (no more often than
\* they were extracted, inferred or already there), inside the metadata
\* sub-block.
C4_InjectedOnceInSubBlock ==
    \A e \in Calls :
        Wrote(e) =>
            /\ \A i \in 1..Len(Injected(e)) :
                  Count(OutBlock(e), Injected(e)[i]) =
                      Count(Injected(e), Injected(e)[i])
                      + Count(e.frame.keep_lines, Injected(e)[i])
            /\ InjectedInSubBlock(OutBlock(e), Injected(e))

\* The parsed lines of the block a call classified in Phase 1.
ParsedOf(e) == ParseFmLines(InBlock(e))
RawLines(parsed) == [i \in 1..Len(parsed) |-> parsed[i].raw]

\* C5: a migrated field moves as one unit.  keep_lines is exactly the lines
\* that belong to no migrated field, so no null-key line that follows a
\* target key line (before the next key line) stays behind, and every such
\* line is among the extracted lines of that key.
C5_FieldMovesAsUnit ==
    \A e \in Latest :
        Valid(e) =>
            LET lines == RawLines(ParsedOf(e))
            IN  /\ e.frame.keep_lines = NonMigrated(lines)
                /\ \A i \in 1..Len(lines) : \A k \in 1..i :
                      (OpenedBy(lines, i, k) /\ IsTargetLine(lines[k]))
                          => /\ ParseLine(lines[k]).key \in DOMAIN e.frame.extracted_lines
                             /\ Count(e.frame.extracted_lines[ParseLine(lines[k]).key],
                                      lines[i]) >= 1

\* C5 witness: a target key line followed by a null-key line and then by a
\* line that is kept.
C5_Witness ==
    \E e \in Calls :
        /\ Valid(e)
        /\ \E i \in 1..(Len(ParsedOf(e)) - 2) :
              /\ IsTargetLine(ParsedOf(e)[i].raw)
              /\ IsNullKeyLine(ParsedOf(e)[i + 1].raw)
              /\ ParsedOf(e)[i + 2].haskey
              /\ ~IsTargetLine(ParsedOf(e)[i + 2].raw)
        /\ e.frame.keep_lines # <<>>

\* The nested metadata mapping the call found holds every target field.
NestedHasAll(e) ==
    LET em == ExistingMetadata(YamlSafeLoad(InBlock(e)))
    IN  em.kind = "map" /\ FIELDS_TO_MIGRATE \subseteq em.keys

NoTargetAtTop(e) ==
    \A i \in 1..Len(InBlock(e)) : ~IsTargetLine(InBlock(e)[i])

\* C6: with no top-level key line of a target field and a nested metadata
\* mapping that holds every target field, migrate_skill returns False and
\* writes nothing.
C6_NoOp ==
    \A e \in Latest :
        (Valid(e) /\ NoTargetAtTop(e) /\ NestedHasAll(e))
            => (e.ret = FALSE /\ e.writes = <<>> /\ e.after = e.before)

C6_Witness ==
    \E e \in Calls :
        Valid(e) /\ NoTargetAtTop(e) /\ NestedHasAll(e) /\ e.ret = FALSE

\* The indented lines that follow line m of a block: the members of the
\* sub-block opened on line m.
RECURSIVE Members(_, _)
Members(lines, m) ==
    IF m + 1 <= Len(lines) /\ IsSpaceFirst(lines[m + 1])
    THEN <<lines[m + 1]>> \o Members(lines, m + 1)
    ELSE <<>>

\* C7: when the input has a metadata sub-block and a top-level target
\* field, the output holds that sub-block's member lines untouched, then
\* the migrated lines, where the sub-block ends, and no top-level key line
\* of a target field.
C7_PartialMigration ==
    \A e \in Calls :
        (Wrote(e) /\ e.frame.has_metadata_key /\ ~NoTargetAtTop(e)) =>
            /\ \E m \in 1..Len(e.frame.keep_lines) : \E s \in 1..Len(OutBlock(e)) :
                  LET sub == <<e.frame.keep_lines[m]>>
                                \o Members(e.frame.keep_lines, m) \o Injected(e)
                  IN  /\ IsKeyLine(e.frame.keep_lines[m], <<"metadata">>)
                      /\ s + Len(sub) - 1 <= Len(OutBlock(e))
                      /\ SubSeq(OutBlock(e), s, s + Len(sub) - 1) = sub
                      /\ (s + Len(sub) <= Len(OutBlock(e))
                            => ~IsSpaceFirst(OutBlock(e)[s + Len(sub)]))
            /\ \A i \in 1..Len(OutBlock(e)) : ~IsTargetLine(OutBlock(e)[i])

\* What the caller of a run gets back: the returned value, and from it the
\* line main prints.
CallerView(e) == <<e.ret, Report(e.ret)>>

\* What the caller gets back from a run that found nothing to change
\* (`if not changed: return False`).
NoChangeView == <<FALSE, Report(FALSE)>>

\* C8: a malformed document (no delimited frontmatter, invalid YAML, not a
\* mapping) is rejected: the text is left as it was and the caller gets a
\* failure it can tell from an ordinary "no change".
C8_MalformedRejected ==
    \A e \in Calls :
        Malformed(e) =>
            /\ e.writes = <<>> /\ e.after = e.before
            /\ CallerView(e) # NoChangeView

\* C9: a run writes the file at most once, and then the fully assembled
\* document; a run that returns False (missing file, no frontmatter, invalid
\* YAML, not a mapping, nothing to change) leaves the file as it was.
C9_NoPartialWrites ==
    \A e \in Latest :
        /\ Len(e.writes) <= 1
        /\ e.ret = FALSE => (e.writes = <<>> /\ e.after = e.before)
        /\ Wrote(e) =>
              /\ e.ret = TRUE
              /\ e.writes[1] = <<DELIM>> \o e.frame.new_keep
                                  \o SplitFrontmatter(e.before).rest
              /\ e.after = e.writes[1]

\* C9 witness: in one behaviour a run that wrote and a run that returned
\* False on the file the first one left.
C9_Witness ==
    \E e \in Calls : \E d \in Calls : Wrote(e) /\ d.ret = FALSE /\ d.before = e.after

\* C10: the output document is the opening "---" line, the new metadata
\* block, then the closing "---" line and the body of the input, unchanged.
C10_DelimitersAndBodyKept ==
    \A e \in Latest :
        Wrote(e) =>
            LET rest == SplitFrontmatter(e.before).rest
                n    == Len(e.after) - Len(rest)
            IN  /\ e.after[1] = DELIM /\ e.before[1] = DELIM
                /\ n >= 2
                /\ SubSeq(e.after, n + 1, Len(e.after)) = rest
                /\ rest[1] = DELIM
                /\ SubSeq(e.after, 2, n) = e.frame.new_keep
                /\ SplitFrontmatter(e.after).rest = rest

\* C10 witness: a migration of a document whose body holds a "---" line.
C10_Witness ==
    \E e \in Calls :
        /\ Wrote(e)
        /\ \E i \in 2..Len(SplitFrontmatter(e.before).rest) :
              SplitFrontmatter(e.before).rest[i] = DELIM

\* A run inferred a line for the field f.
HasInferredLine(e, f) ==
    \E i \in 1..Len(e.frame.inferred_lines) :
        IsKeyLine(LStrip(e.frame.inferred_lines[i]), <<f>>)

\* The input block has a top-level key line of the field f.
TopLevelHas(e, f) ==
    \E i \in 1..Len(InBlock(e)) : IsKeyLine(InBlock(e)[i], <<f>>)

\* The input block has a nested metadata mapping with the key f.
NestedHas(e, f) ==
    LET em == ExistingMetadata(YamlSafeLoad(InBlock(e)))
    IN  em.kind = "map" /\ <<f>> \in em.keys

\* C12: a default is inferred for a target field exactly when the field is
\* neither a top-level key line nor a key of the nested metadata mapping,
\* and the member lines of an existing metadata sub-block are in the output
\* unchanged.
C12_InferIffAbsent ==
    \A e \in Calls :
        Valid(e) =>
            /\ \A f \in {"author", "repo", "tags"} :
                  HasInferredLine(e, f) <=> (~TopLevelHas(e, f) /\ ~NestedHas(e, f))
            /\ Wrote(e) =>
                  \A m \in 1..Len(InBlock(e)) :
                      IsKeyLine(InBlock(e)[m], <<"metadata">>)
                          => IsSubseq(Members(InBlock(e), m), OutBlock(e))

\* C13: a dry run writes nothing and leaves the file as it was, and it
\* returns what the non-dry run that follows it on the same file returns.
C13_DryRunModifiesNothing ==
    /\ \A e \in Latest : e.dry_run => (e.writes = <<>> /\ e.after = e.before)
    /\ \A i \in 1..(Len(log) - 1) :
          (log[i].dry_run /\ ~log[i + 1].dry_run /\ log[i + 1].before = log[i].before)
              => log[i + 1].ret = log[i].ret

\* C13 witness: a dry run that returned True, then the non-dry run on the
\* same file, which wrote it.
C13_Witness ==
    \E i \in 1..(Len(log) - 1) :
        /\ log[i].dry_run /\ log[i].ret = TRUE /\ log[i].after = log[i].before
        /\ ~log[i + 1].dry_run /\ log[i + 1].before = log[i].before
        /\ Wrote(log[i + 1])

\* The lines Phase 1 extracted for the field f (none when f has no entry).
ExtractedOf(e, f) ==
    IF <<f>> \in DOMAIN e.frame.extracted_lines
    THEN e.frame.extracted_lines[<<f>>] ELSE <<>>

\* keep_lines and the extracted lines of each target field.
Phase1Parts(e) ==
    <<e.frame.keep_lines, ExtractedOf(e, "author"), ExtractedOf(e, "repo"),
      ExtractedOf(e, "tags")>>

\* C15: Phase 1 is a stable partition of the parsed lines: each part is a
\* subsequence of the parsed lines, every line is in the parts as often as
\* among the parsed lines, and the parts hold as many lines as were parsed.
C15_StablePartition ==
    \A e \in Latest :
        Valid(e) =>
            LET lines == RawLines(ParsedOf(e))
                parts == Phase1Parts(e)
            IN  /\ \A p \in 1..4 : IsSubseq(parts[p], lines)
                /\ \A i \in 1..Len(lines) :
                      Count(lines, lines[i]) =
                          Count(parts[1], lines[i]) + Count(parts[2], lines[i])
                          + Count(parts[3], lines[i]) + Count(parts[4], lines[i])
                /\ Len(lines) = Len(parts[1]) + Len(parts[2])
                                + Len(parts[3]) + Len(parts[4])

\* C15 witness: a block split into kept lines and the lines of two fields.
C15_Witness ==
    \E e \in Calls :
        /\ Valid(e) /\ e.frame.keep_lines # <<>>
        /\ ExtractedOf(e, "author") # <<>> /\ ExtractedOf(e, "repo") # <<>>

\* C16: the lines extracted for a field are exactly the key lines of that
\* field and the null-key lines between such a key line and the next key
\* line; a metadata key line and the indented lines under it stay together
\* in keep_lines.
C16_NoAttachAcrossKeyLine ==
    \A e \in Latest :
        Valid(e) =>
            LET lines == RawLines(ParsedOf(e))
                keep  == e.frame.keep_lines
            IN  /\ \A f \in {"author", "repo", "tags"} :
                      ExtractedOf(e, f) =
                          Pick(lines,
                               {i \in 1..Len(lines) :
                                   \E k \in 1..i : /\ OpenedBy(lines, i, k)
                                                   /\ IsKeyLine(lines[k], <<f>>)},
                               1)
                /\ \A m \in 1..Len(lines) :
                      IsKeyLine(lines[m], <<"metadata">>) =>
                          LET sub == <<lines[m]>> \o Members(lines, m)
                          IN  \E s \in 1..Len(keep) :
                                  /\ s + Len(sub) - 1 <= Len(keep)
                                  /\ SubSeq(keep, s, s + Len(sub) - 1) = sub

\* C16 witness: a target key line, then a metadata key line with an
\* indented child, and only the target key line was extracted.
C16_Witness ==
    \E e \in Calls :
        /\ Valid(e)
        /\ \E i \in 1..(Len(ParsedOf(e)) - 2) :
              /\ IsTargetLine(ParsedOf(e)[i].raw)
              /\ IsKeyLine(ParsedOf(e)[i + 1].raw, <<"metadata">>)
              /\ IsSpaceFirst(ParsedOf(e)[i + 2].raw)
              /\ e.frame.extracted_lines[ParsedOf(e)[i].key] = <<ParsedOf(e)[i].raw>>

\* key is the text before the first ":" of line, without the spaces around it
IsTrimmedKey(key, line) ==
    LET c   == CHOOSE i \in 1..Len(line) :
                   line[i] = COLON /\ \A j \in 1..(i - 1) : line[j] # COLON
        pre == SubSeq(line, 1, c - 1)
    IN  /\ key = <<>> \/ (key[1] # SP /\ key[Len(key)] # SP)
        /\ \E a \in 0..Len(pre) : \E b \in 0..Len(pre) :
              pre = Spaces(a) \o key \o Spaces(b)

\* The lines of a text as _parse_fm_lines is given it: a line ends at "\n"
\* or at the end of the text, so that a final "\n" opens no further line.
InputLines(text) ==
    IF text[Len(text)] = <<>> THEN SubSeq(text, 1, Len(text) - 1) ELSE text

\* C17: _parse_fm_lines gives one (key, raw) pair per line of its input, in
\* order, raw being the line; the key is non-null exactly for a non-empty
\* line that does not start with whitespace and holds a ":", and is then the
\* trimmed text before the first ":".
C17_LineClassification ==
    \A e \in Latest :
        Valid(e) =>
            LET lines  == InputLines(InBlock(e))
                parsed == ParsedOf(e)
            IN  /\ Len(parsed) = Len(lines)
                /\ \A i \in 1..Len(parsed) :
                      /\ parsed[i].raw = lines[i]
                      /\ parsed[i].haskey <=>
                            /\ lines[i] # <<>>
                            /\ lines[i][1] # SP
                            /\ \E c \in 1..Len(lines[i]) : lines[i][c] = COLON
                      /\ parsed[i].haskey => IsTrimmedKey(parsed[i].key, lines[i])

\* C17 witness: a block with a key line whose key is followed by a space,
\* an indented line holding a ":" and an empty line.
C17_Witness ==
    \E e \in Calls :
        /\ Valid(e)
        /\ \E i \in 1..Len(ParsedOf(e)) :
              ParsedOf(e)[i].haskey /\ ParsedOf(e)[i].raw = L_metasp
        /\ \E i \in 1..Len(ParsedOf(e)) :
              ~ParsedOf(e)[i].haskey /\ ParsedOf(e)[i].raw = L_nauthor
        /\ \E i \in 1..Len(ParsedOf(e)) :
              ~ParsedOf(e)[i].haskey /\ ParsedOf(e)[i].raw = <<>>

\* The null-key lines that follow line k of a block.
RECURSIVE NullRun(_, _)
NullRun(lines, k) ==
    IF k + 1 <= Len(lines) /\ IsNullKeyLine(lines[k + 1])
    THEN <<lines[k + 1]>> \o NullRun(lines, k + 1)
    ELSE <<>>

\* A field group as it should stand under metadata: every line indented by
\* one level, an empty line left empty.
MovedGroup(g) == [i \in 1..Len(g) |-> IF g[i] = <<>> THEN <<>> ELSE Indent(g[i])]

\* C18: an empty line inside a migrated field is in the output as an empty
\* line, where it was among the field's other lines.
C18_BlankLinesPreserved ==
    \A e \in Calls :
        Wrote(e) =>
            \A k \in 1..Len(InBlock(e)) :
                LET g == <<InBlock(e)[k]>> \o NullRun(InBlock(e), k)
                IN  (IsTargetLine(InBlock(e)[k]) /\ \E i \in 1..Len(g) : g[i] = <<>>)
                       => \E s \in 1..Len(OutBlock(e)) :
                              /\ s + Len(g) - 1 <= Len(OutBlock(e))
                              /\ SubSeq(OutBlock(e), s, s + Len(g) - 1) = MovedGroup(g)

\* The extracted lines in the order Phase 3 walks them.
ExtractedInOrder(e) ==
    ExtractedOf(e, "author") \o ExtractedOf(e, "repo") \o ExtractedOf(e, "tags")

\* C19: in the lines Phase 3 builds, every extracted raw line stands as two
\* spaces followed by its text, so that each line of a field is indented two
\* more than it was and the key line of the field is indented by two.
C19_ReindentedByOneLevel ==
    \A e \in Latest :
        (Valid(e) /\ e.frame.changed) =>
            LET ex  == ExtractedInOrder(e)
                mb  == e.frame.meta_block_lines
                off == IF e.frame.has_metadata_key THEN 0 ELSE 1
            IN  /\ Len(mb) = off + Len(ex) + Len(e.frame.inferred_lines)
                /\ \A i \in 1..Len(ex) :
                      /\ SubSeq(mb[off + i], 1, 2) = <<SP, SP>>
                      /\ SubSeq(mb[off + i], 3, Len(mb[off + i])) = ex[i]
                      /\ LeadingSpaces(mb[off + i]) = LeadingSpaces(ex[i]) + 2
                      /\ IsTargetLine(ex[i]) => LeadingSpaces(mb[off + i]) = 2

\* C19 witness: a field with an indented continuation line was re-indented.
C19_Witness ==
    \E e \in Calls :
        /\ Wrote(e)
        /\ \E i \in 1..Len(ExtractedInOrder(e)) :
              LeadingSpaces(ExtractedInOrder(e)[i]) = 2
        /\ \E j \in 1..Len(e.frame.meta_block_lines) :
              LeadingSpaces(e.frame.meta_block_lines[j]) = 4

\* C20: when the block has no top-level key line with key metadata, the
\* output block is the kept lines, in their original order, then a new
\* "metadata:" line, then the extracted and the inferred lines, and nothing
\* after them.
C20_SubBlockCreatedAtEnd ==
    \A e \in Latest :
        (Wrote(e) /\ MetadataKeyLines(InBlock(e)) = 0) =>
            /\ OutBlock(e) = e.frame.keep_lines \o <<L_meta>> \o Injected(e)
            /\ IsSubseq(e.frame.keep_lines, InBlock(e))

\* C20 witness: a block with kept lines and a target field but no metadata
\* key line was migrated.
C20_Witness ==
    \E e \in Calls :
        /\ Wrote(e) /\ MetadataKeyLines(InBlock(e)) = 0
        /\ e.frame.keep_lines # <<>> /\ ExtractedInOrder(e) # <<>>
        /\ e.frame.inferred_lines # <<>>

\* The first three segments of a name of more than three, else all of them,
\* then the sentinel.
TagSource(name_parts) ==
    Append(IF Len(name_parts) > 3 THEN SubSeq(name_parts, 1, 3) ELSE name_parts,
           "curated")

FirstIndex(seq, x) ==
    CHOOSE i \in 1..Len(seq) : seq[i] = x /\ \A j \in 1..(i - 1) : seq[j] # x

\* r is src without its later duplicates, first occurrences in order.
IsDedupOf(r, src) ==
    /\ {r[i] : i \in 1..Len(r)} = {src[i] : i \in 1..Len(src)}
    /\ \A i \in 1..Len(r) : \A j \in 1..Len(r) : i # j => r[i] # r[j]
    /\ \A i \in 1..Len(r) : \A j \in 1..Len(r) :
          i < j => FirstIndex(src, r[i]) < FirstIndex(src, r[j])

\* The tag list as claimed for the name of the skill directory.
IsClaimedTags(r) ==
    /\ IsDedupOf(r, TagSource(skill_dir[Len(skill_dir)]))
    /\ \E i \in 1..Len(r) : r[i] = "curated"
    /\ Len(r) <= 4

\* The tags on the line migrate_skill inferred: the words after the key.
InferredTags(e) ==
    LET i == CHOOSE k \in 1..Len(e.frame.inferred_lines) :
                 IsKeyLine(LStrip(e.frame.inferred_lines[k]), <<"tags">>)
    IN  Tail(WordSeq(e.frame.inferred_lines[i]))

\* The value under metadata in the frontmatter a run left in the file.
WrittenMetadata(e) == ExistingMetadata(YamlSafeLoad(EnsureSplit(e.after).fm_text))

\* metadata.tags of the frontmatter a run left in the file.
WrittenTags(e) == DictGet(WrittenMetadata(e).items, <<"tags">>).items

\* C11: when tags are absent everywhere and the caller gives none, the tag
\* list migrate_skill infers and the one ensure_metadata writes are the
\* first three segments of the name (all of them when there are at most
\* three) and then "curated", without later duplicates: it holds "curated",
\* no duplicate and at most four entries.
C11_DefaultTags ==
    \A e \in Latest :
        /\ (e.prog = "migrate_skill" /\ Valid(e) /\ HasInferredLine(e, "tags"))
              => IsClaimedTags(InferredTags(e))
        /\ (e.prog = "ensure_metadata" /\ Wrote(e) /\ e.frame.tags = <<>>)
              => IsClaimedTags(WrittenTags(e))

\* C11 witness: for the name pdf-merge-tool-extra both programs gave
\* pdf, merge, tool, curated.
C11_Witness ==
    /\ skill_dir[Len(skill_dir)] = <<"pdf", "merge", "tool", "extra">>
    /\ \E e \in Calls :
          /\ e.prog = "migrate_skill" /\ Valid(e) /\ HasInferredLine(e, "tags")
          /\ InferredTags(e) = <<"pdf", "merge", "tool", "curated">>
    /\ \E e \in Calls :
          /\ e.prog = "ensure_metadata" /\ Wrote(e) /\ e.frame.tags = <<>>
          /\ WrittenTags(e) = <<"pdf", "merge", "tool", "curated">>

\* The frontmatter ensure_metadata read parses to a mapping.
ParsesToMapping(e) ==
    /\ e.before # NoFile
    /\ EnsureSplit(e.before).matched
    /\ YamlSafeLoad(EnsureSplit(e.before).fm_text).status = "dict"

\* C14: after ensure_metadata has run on a SKILL.md whose frontmatter parses
\* to a mapping, the frontmatter in the file has metadata.author,
\* metadata.repo and metadata.tags, whatever the arguments.
C14_AllThreePresent ==
    \A e \in Calls :
        (e.prog = "ensure_metadata" /\ ParsesToMapping(e)) =>
            /\ WrittenMetadata(e).kind = "map"
            /\ {<<"author">>, <<"repo">>, <<"tags">>} \subseteq WrittenMetadata(e).keys

\* Lines with two spaces put before each.
Shifted(lines) == [i \in 1..Len(lines) |-> <<SP, SP>> \o lines[i]]

\* The keys of the lines a run inferred, in the order of the lines.
InferredKeys(e) ==
    [i \in 1..Len(e.frame.inferred_lines) |->
        ParseLine(LStrip(e.frame.inferred_lines[i])).key]

\* inj is a run of consecutive lines of out.
IsBlockOf(inj, out) ==
    \E s \in 1..(Len(out) - Len(inj) + 1) : SubSeq(out, s, s + Len(inj) - 1) = inj

\* Phase 4 finds the sub-block it has to inject into: there is none to
\* find, or a kept line starts with "metadata:".
SubBlockFound(e) ==
    \/ ~e.frame.has_metadata_key
    \/ \E i \in 1..Len(e.frame.keep_lines) : StartsWithMetadata(e.frame.keep_lines[i])

\* C21: the lines to inject are the extracted author lines, then the
\* extracted repo lines, then the extracted tags lines, then the inferred
\* lines with their keys in the order author, repo, tags, whatever the order
\* of the fields in the input; they stand in the output in that order as
\* one block; and two runs on the same text and directory build the same
\* lines and return the same value.
C21_InjectionOrder ==
    /\ \A e \in Latest :
          (Valid(e) /\ e.frame.changed) =>
              LET mb  == e.frame.meta_block_lines
                  off == IF e.frame.has_metadata_key THEN 0 ELSE 1
                  inj == Shifted(ExtractedOf(e, "author"))
                         \o Shifted(ExtractedOf(e, "repo"))
                         \o Shifted(ExtractedOf(e, "tags"))
                         \o e.frame.inferred_lines
              IN  /\ SubSeq(mb, off + 1, Len(mb)) = inj
                  /\ IsSubseq(InferredKeys(e), << <<"author">>, <<"repo">>, <<"tags">> >>)
                  /\ (Wrote(e) /\ SubBlockFound(e)) => IsBlockOf(inj, OutBlock(e))
    /\ \A i \in 1..(Len(log) - 1) :
          log[i + 1].before = log[i].before =>
              /\ log[i + 1].frame = log[i].frame
              /\ log[i + 1].ret = log[i].ret

\* C21 witness: repo stood before author at top level; the output has the
\* author line before the repo line and the inferred tags line after both;
\* and the run before it, a dry run on the same text, built the same lines.
C21_Witness ==
    /\ \E e \in Calls :
          /\ Wrote(e)
          /\ \E i \in 1..Len(InBlock(e)) : \E j \in 1..Len(InBlock(e)) :
                i < j /\ InBlock(e)[i] = L_repo /\ InBlock(e)[j] = L_author
          /\ \E i \in 1..Len(OutBlock(e)) :
                /\ i + 2 <= Len(OutBlock(e))
                /\ OutBlock(e)[i] = <<SP, SP>> \o L_author
                /\ OutBlock(e)[i + 1] = <<SP, SP>> \o L_repo
                /\ IsKeyLine(LStrip(OutBlock(e)[i + 2]), <<"tags">>)
    /\ Len(log) = 2 /\ log[1].dry_run /\ log[2].before = log[1].before
    /\ log[2].frame = log[1].frame

\* The line a run inferred for the field f.
InferredLine(e, f) ==
    e.frame.inferred_lines[
        CHOOSE k \in 1..Len(e.frame.inferred_lines) :
            IsKeyLine(LStrip(e.frame.inferred_lines[k]), <<f>>)]

\* The field f is neither a top-level key line nor a key of a nested mapping.
AbsentEverywhere(e, f) == ~TopLevelHas(e, f) /\ ~NestedHas(e, f)

\* C22: the author migrate_skill infers is the first segment of the skill's
\* path below the skills directory when that path has at least two
\* segments, and "unknown" when it has fewer; it is inferred only when
\* author is absent everywhere.
C22_NamespaceDefault ==
    \A e \in Latest :
        (e.prog = "migrate_skill" /\ Valid(e) /\ HasInferredLine(e, "author")) =>
            /\ AbsentEverywhere(e, "author")
            /\ InferredLine(e, "author") =
                  <<SP, SP, "author", COLON, SP>>
                  \o (IF Len(skill_dir) >= 2 THEN HyphenJoin(skill_dir[1])
                      ELSE <<"unknown">>)

\* C22 witness: for skills/alice/pdf-merge a run wrote the inferred line
\* "  author: alice" into a document that had no author anywhere.
C22_Witness ==
    /\ Len(skill_dir) = 2 /\ skill_dir[1] = <<"alice">>
    /\ \E e \in Calls :
          /\ Wrote(e) /\ AbsentEverywhere(e, "author")
          /\ \E i \in 1..Len(OutBlock(e)) :
                OutBlock(e)[i] = <<SP, SP, "author", COLON, SP, "alice">>

\* The frontmatter ensure_metadata loaded from the file it read.
LoadedBefore(e) == YamlSafeLoad(EnsureSplit(e.before).fm_text)

\* The field f is neither a top-level key of the frontmatter ensure_metadata
\* read nor a key of its nested metadata mapping.
MissingBefore(e, f) ==
    /\ \A i \in 1..Len(LoadedBefore(e).ents) : LoadedBefore(e).ents[i].key # <<f>>
    /\ ~(/\ ExistingMetadata(LoadedBefore(e)).kind = "map"
         /\ <<f>> \in ExistingMetadata(LoadedBefore(e)).keys)

\* metadata.f of the frontmatter a run left in the file
WrittenField(e, f) == DictGet(WrittenMetadata(e).items, <<f>>)

WrittenHas(e, f) ==
    WrittenMetadata(e).kind = "map" /\ <<f>> \in WrittenMetadata(e).keys

C24_ExplicitTagsVerbatim ==
    \A e \in Latest :
        (e.prog = "ensure_metadata" /\ Wrote(e) /\ MissingBefore(e, "tags")) =>
            /\ WrittenHas(e, "tags")
            /\ WrittenField(e, "tags").kind = "list"
            /\ e.frame.tags # <<>> => WrittenTags(e) = e.frame.tags
            /\ e.frame.tags = <<>> => IsClaimedTags(WrittenTags(e))

\* C24 witness: the caller's list t1, t1 was written as it was given, to a
\* document that had no tags.
C24_Witness ==
    \E e \in Calls :
        /\ e.prog = "ensure_metadata" /\ Wrote(e) /\ MissingBefore(e, "tags")
        /\ e.frame.tags = <<"t1", "t1">>
        /\ WrittenTags(e) = <<"t1", "t1">>

\* The frontmatter a run left in the file, loaded.
LoadedAfter(e) == YamlSafeLoad(EnsureSplit(e.after).fm_text)

TopKeyBefore(e, f) ==
    \E i \in 1..Len(LoadedBefore(e).ents) : LoadedBefore(e).ents[i].key = <<f>>

\* The field f is a top-level key of the frontmatter the run read and a key
\* of its nested metadata mapping.
Conflict(e, f) ==
    /\ e.before # NoFile /\ EnsureSplit(e.before).matched
    /\ LoadedBefore(e).status = "dict"
    /\ TopKeyBefore(e, f)
    /\ ExistingMetadata(LoadedBefore(e)).kind = "map"
    /\ <<f>> \in ExistingMetadata(LoadedBefore(e)).keys

\* The value of the top-level key f in the frontmatter the run read.
TopValueBefore(e, f) == DictGet(AsDict(LoadedBefore(e).ents), <<f>>)

\* In the block the text migrator wrote, every top-level line of the field
\* f stands, re-indented, after a nested entry of that key that was there.
InjectedAfterNested(e, f) ==
    \A k \in 1..Len(InBlock(e)) :
        IsKeyLine(InBlock(e)[k], <<f>>) =>
            \E i \in 1..Len(OutBlock(e)) : \E j \in 1..Len(OutBlock(e)) :
                /\ i < j
                /\ IsSpaceFirst(OutBlock(e)[i])
                /\ IsKeyLine(LStrip(OutBlock(e)[i]), <<f>>)
                /\ \E m \in 1..Len(InBlock(e)) : InBlock(e)[m] = OutBlock(e)[i]
                /\ OutBlock(e)[j] = <<SP, SP>> \o InBlock(e)[k]

\* C25: when a target field is a top-level key and a key of the nested
\* metadata mapping, a run that writes the file leaves a frontmatter in
\* which the field is no top-level key and metadata holds the value the
\* top-level key had; migrate_skill puts the top-level lines after the
\* nested entry of that key.
C25_TopLevelWins ==
    \A e \in Calls : \A f \in {"author", "repo", "tags"} :
        (Conflict(e, f) /\ Wrote(e)) =>
            /\ LoadedAfter(e).status = "dict"
            /\ \A i \in 1..Len(LoadedAfter(e).ents) : LoadedAfter(e).ents[i].key # <<f>>
            /\ WrittenHas(e, f)
            /\ WrittenField(e, f) = TopValueBefore(e, f)
            /\ e.prog = "migrate_skill" => InjectedAfterNested(e, f)

\* The text a run of migrate_skill that returned True wrote, or would have
\* written had it not been a dry run.
TextToWrite(e) ==
    <<DELIM>> \o e.frame.new_keep \o SplitFrontmatter(e.before).rest

\* C26: migrate_skill returns True only if the text it writes, or would
\* write in a dry run, differs from the text it read, and False only if the
\* file is left as it was.
C26_ResultMeansChanged ==
    \A e \in Calls :
        e.prog = "migrate_skill" =>
            /\ e.ret = TRUE => TextToWrite(e) # e.before
            /\ e.ret = FALSE => e.after = e.before

\* migrate_skill treated the field f as already nested: there is no
\* top-level key line of it, and the run inferred no line for it.
TreatedAsNested(e, f) == ~TopLevelHas(e, f) /\ ~HasInferredLine(e, f)

\* C27: on a document whose frontmatter parses to a mapping, migrate_skill
\* returns without raising, whatever stands under metadata (null, a string,
\* a number, a list), and it treats a field as already nested only when the
\* field is a key of a nested mapping.
C27_RunsToCompletion ==
    \A e \in Calls :
        (e.prog = "migrate_skill" /\ Valid(e)) =>
            /\ ~e.raised
            /\ \A f \in {"author", "repo", "tags"} :
                  TreatedAsNested(e, f) => NestedHas(e, f)

\* Two calls of ensure_metadata, one after the other, with the same arguments.
SameArguments(d, e) ==
    /\ d.prog = "ensure_metadata" /\ e.prog = "ensure_metadata"
    /\ d.frame.author = e.frame.author
    /\ d.frame.source_repo = e.frame.source_repo
    /\ d.frame.tags = e.frame.tags

\* The top-level keys of the frontmatter a run left in the file.
TopKeysAfter(e) ==
    {LoadedAfter(e).ents[i].key : i \in 1..Len(LoadedAfter(e).ents)}

\* C28: a second ensure_metadata with the same arguments leaves the parsed
\* frontmatter as the first left it (the same keys with the same values, at
\* top level and under metadata), and after any call on a frontmatter that
\* parses to a mapping no key of FIELDS_TO_MIGRATE is a top-level key.
C28_EnsureIdempotent ==
    /\ \A i \in 1..(Len(log) - 1) :
          (SameArguments(log[i], log[i + 1]) /\ ParsesToMapping(log[i])) =>
              /\ LoadedAfter(log[i + 1]).status = "dict"
              /\ AsDict(LoadedAfter(log[i + 1]).ents) = AsDict(LoadedAfter(log[i]).ents)
    /\ \A e \in Calls :
          (e.prog = "ensure_metadata" /\ ParsesToMapping(e)) =>
              TopKeysAfter(e) \cap CuratorFieldsToMigrate = {}

\* ---------------------------------------------------------------------- C29
\* The runs of update_readme itself.
ReadmeRuns == {e \in Calls : e.prog = "update_readme"}

\* The run rewrote README.md and its text is no longer what it was.
Rewrote(e) == e.writes # <<>> /\ e.after # e.before

\* The latest two runs are of update_readme on a README.md that exists,
\* one right after the other, with the same skills directory.
SecondCall ==
    /\ Len(log) = 2
    /\ log[1].prog = "update_readme" /\ log[2].prog = "update_readme"
    /\ log[1].before # NoFile
    /\ log[1].frame.tree = log[2].frame.tree
    /\ log[2].before = log[1].after

\* The first of the two runs found no inventory section and appended one.
FirstAppended == SearchSection(log[1].before).first = 0

\* C29: update_readme returns True exactly when it rewrote README.md with
\* different content, and a second call with an unchanged skills directory,
\* whether the first call replaced an inventory section or appended one,
\* returns False and leaves README.md unchanged.
C29_ReadmeIdempotent ==
    /\ \A e \in ReadmeRuns : e.ret <=> Rewrote(e)
    /\ SecondCall => ~log[2].ret /\ log[2].after = log[2].before

\* ---------------------------------------------------------------------- C30
\* The skill directories that were staged when the run began.
StagedAtStart == {e \in skill_dir.start.entries : e.isdir}

\* Step i of the run validated e and found no errors.
Validated(e, i) ==
    log[i] = Step("validate", e.author, e.name, TRUE)

\* create_pr has returned before step i of the run.
PrCreatedBefore(i) ==
    \E j \in 1..(i - 1) : log[j] = Step("create_pr", "", "", TRUE)

\* The run has ended without shipping: an exception left it, or it was a
\* dry run.
NotShipped ==
    /\ skill_dir.pc = "idle"
    /\ \/ skill_dir.outcome = "raised"
       \/ skill_dir.outcome = "returned" /\ skill_dir.dry_run

\* C30: in cmd_ship every staged skill has been validated before any
\* branch, clone, copy or commit step is made; staged skill directories
\* are deleted only after create_pr has returned; and when validation,
\* commit, push, fork or the creation of the pull request fails, or in a
\* dry run, the staging area still holds every staged skill.
C30_StagedConsumedOnlyByShip ==
    /\ \A i \in 1..Len(log) :
          log[i].op \in {"branch", "clone", "copy", "commit"} =>
              \A e \in StagedAtStart : \E j \in 1..(i - 1) : Validated(e, j)
    /\ \A i \in 1..Len(log) : log[i].op = "rmtree" => PrCreatedBefore(i)
    /\ (skill_dir.pc # "idle" \/ skill_dir.outcome # "none") =>
          (file # skill_dir.start => skill_dir.pr)
    /\ NotShipped => file = skill_dir.start

\* A run that shipped two staged skills has returned and both are gone
\* from the staging area.
C30_Witness ==
    /\ skill_dir.pc = "idle" /\ skill_dir.outcome = "returned" /\ ~skill_dir.dry_run
    /\ Len(skill_dir.staged) = 2
    /\ \A i \in 1..2 : skill_dir.staged[i] \in skill_dir.start.entries \ file.entries

=============================================================================
